---- MODULE Spec2Model ----
(***************************************************************************)
(* Progression and settlement engine of the RPG todo bot: the user record  *)
(* (level, xp, hp, points, shield, pepper mode, streak), the task ledger,  *)
(* task completion rewards, shop purchases and the evening settlement.     *)
(*                                                                         *)
(* One user is modelled: the account main() creates and whitelists at      *)
(* start-up.  SQLite 0/1 flags are booleans.                               *)
(*                                                                         *)
(* Dates are kept relative to date.today().  The code only ever compares   *)
(* a stored date with today's, so a stored date is "today", "past" (any    *)
(* earlier day) or "" (the column's default).  last_perfect_date is also   *)
(* told apart as "yesterday", so that consecutive days can be counted.     *)
(***************************************************************************)
EXTENDS Integers, Sequences, FiniteSets, TLC

\* ------------------------------------------------------------------ bounds
\* Rows inserted into the tasks table since start-up.
MaxTasks == 2
\* Rows inserted into each of the tables idea_categories and ideas.
MaxIdeas == 1
\* The evening job is not run on a fully completed day for a streak that has
\* reached MaxStreak.
MaxStreak == 3
\* Coroutines (callback handlers, the evening job) started since start-up.
MaxCalls == 3
\* Rows inserted into the rewards table since start-up.
MaxRewards == 1
\* Rows of the last seven days in a stored tasks table.
MaxWeekTasks == 5
\* Telegram accounts that write to the bot; account 1 is ADMIN_ID.
MaxUsers == 2

VARIABLES
    ran,        \* whether evening_summary_job has fired today (kept under the
                \* daily schedule only)
    user,       \* the row of the users table
    tasks,      \* the tasks table: row i has id i (AUTOINCREMENT, never reused)
    out,        \* the settlement summary the step just taken sent, if any
                \* (again: the step before it sent one too)
    nullified,  \* HP penalties the shield has set to 0 so far (main.py:117-119)
    bought,     \* shields bought while no shield was active (handlers.py:449-450)
    rewards,    \* the rewards table: row i has id i
    is_sun,     \* date.today().weekday() == 6
    calls,      \* handler and job coroutines suspended at an await, each with
                \* the rows it has read so far
    started,    \* coroutines started so far
    grants,     \* grants[i]: completion rewards written for task i
    debits,     \* debits[i]: times the cost of reward i was taken off points
    ledger,     \* the user's points and experience as the rewards, prices,
                \* costs and penalties written so far add up, one after another
    reply,      \* what the handler that ran last answered (cb.answer,
                \* message.answer), NoReply after any other step
    form,       \* the user's FSM state and the data collected in it
    now,        \* datetime.now(tz): minutes since midnight
    jobs,       \* the scheduler's pending one-shot jobs, in the order added
    reminder_time,  \* column reminder_time of the tasks table, by task id
    fired,      \* ids of the tasks whose reminder job has run
    notified,   \* ids of the tasks a reminder message was sent for
    whitelist,  \* the user ids in table whitelist
    records,    \* the user ids in table users
    tasked,     \* the user ids with a task dated today
    run,        \* the recurring job or restore pass running or last run:
                \* the ids it listed, those still to visit, those visited
    served,     \* <<job, user id>>: the job did its work for the user
    escaped,    \* the jobs an exception has left
    rate,       \* what get_week_completion_rate returned last: the two counts
                \* of its query
    ideas       \* the rows in tables idea_categories and ideas: two counts

\* What only the coroutine-level specification changes.
await_vars == <<rewards, is_sun, calls, started, grants, debits, ledger>>

\* What only the handler-level specifications change.
atomic_vars == <<ran, out, nullified, bought>>

\* What the specifications of the progression engine leave alone.
\* What only the specification of the recurring jobs changes.
job_vars == <<whitelist, records, tasked, run, served, escaped, rate, ideas>>

side_vars == <<reply, form, now, jobs, reminder_time, fired, notified,
               whitelist, records, tasked, run, served, escaped, rate, ideas>>

vars == <<ran, user, tasks, out, nullified, bought,
          rewards, is_sun, calls, started, grants, debits, ledger,
          reply, form, now, jobs, reminder_time, fired, notified,
          whitelist, records, tasked, run, served, escaped, rate, ideas>>

\* An answer: the handler, the text it sent, and whether the keyboard sent
\* with it carries the claim buttons (rewards_kb).
Reply(handler, text, claim_buttons) ==
    [handler |-> handler, text |-> text, claim_buttons |-> claim_buttons]

NoReply == Reply("none", "", FALSE)

\* No form open: state.clear()
NoForm == [state |-> "none", task_type |-> ""]

\* 09:00, the time of day the specifications start at
Morning == 540

\* Costs typed into the reward form (any positive integer is accepted).
RewardCosts == {20}

TaskTypes == {"focus", "important", "wish"}
Items == {"shield", "pepper"}

\* date.today().isoformat(), and the default '' of a date column
Today == "today"
NoDate == ""
\* (date.today() - timedelta(days=1)).isoformat()
Yesterday == "yesterday"

\* A stored date, one midnight later.
Aged(d) == IF d = NoDate THEN NoDate ELSE "past"

\* last_perfect_date, one midnight later.
AgedDay(d) == IF d = Today THEN Yesterday ELSE Aged(d)

\* 100 * (a + (a+1) + ... + b)
RECURSIVE Thresholds(_, _)
Thresholds(a, b) == IF a > b THEN 0 ELSE 100 * a + Thresholds(a + 1, b)

\* All experience a user record stands for: xp plus the thresholds passed.
TotalXp(u) == u.xp + Thresholds(1, u.level - 1)

Max0(x) == IF x < 0 THEN 0 ELSE x
Min100(x) == IF x > 100 THEN 100 ELSE x

\* ------------------------------------------------------------------ store
\* users table defaults (database.py:32-44)
NewUser ==
    [level |-> 1, xp |-> 0, hp |-> 100, points |-> 0,
     shield_active |-> FALSE, pepper_mode |-> FALSE,
     pepper_streak |-> 0, last_perfect_date |-> NoDate]

\* tasks row as add_task inserts it (database.py:129-144)
NewTask(task_type, created_date) ==
    [task_type |-> task_type, created_date |-> created_date,
     completed |-> FALSE, penalized |-> FALSE, deleted |-> FALSE]

\* What is left of a row after DELETE: the id stays used, the row is gone.
DeletedRow ==
    [task_type |-> "none", created_date |-> NoDate,
     completed |-> FALSE, penalized |-> FALSE, deleted |-> TRUE]

\* get_task: whether SELECT ... WHERE id = ? finds a row
TaskExists(ts, id) == id \in 1..Len(ts) /\ ~ts[id].deleted

\* Faulty variant of get_tasks_by_date: the date is not compared.
get_tasks_any_date(ts, iso_date) ==
    SelectSeq([i \in 1..Len(ts) |-> i], LAMBDA i : ~ts[i].deleted)

\* get_tasks_by_date: ids of the user's rows of that date, ORDER BY id
get_tasks_by_date(ts, iso_date) ==
    SelectSeq([i \in 1..Len(ts) |-> i],
              LAMBDA i : ~ts[i].deleted /\ ts[i].created_date = iso_date)

\* complete_task: UPDATE tasks SET completed = 1 WHERE id = ?
complete_task(ts, id) ==
    [i \in 1..Len(ts) |-> IF i = id /\ ~ts[i].deleted
                          THEN [ts[i] EXCEPT !.completed = TRUE] ELSE ts[i]]

\* delete_task: DELETE FROM tasks WHERE id = ?
delete_task(ts, id) ==
    [i \in 1..Len(ts) |-> IF i = id THEN DeletedRow ELSE ts[i]]

\* mark_tasks_penalized: UPDATE tasks SET penalized = 1
\*   WHERE user_id = ? AND created_date = ? AND completed = 0
mark_tasks_penalized(ts, iso_date) ==
    [i \in 1..Len(ts) |->
        IF ~ts[i].deleted /\ ts[i].created_date = iso_date /\ ~ts[i].completed
        THEN [ts[i] EXCEPT !.penalized = TRUE] ELSE ts[i]]

\* ------------------------------------------------------------------ rewards
\* Faulty variant of TimesPepper: rounds up instead of truncating.
TimesPepper_rounded_up(x) == (x * 3 + 1) \div 2

\* int(x * 1.5) for x >= 0: 1.5 * x is exact in binary floating point and int()
\* truncates toward zero.
TimesPepper(x) == (x * 3) \div 2

\* _calc_rewards: (xp, points, hp_heal)
calc_rewards(task_type, pepper) ==
    LET base == CASE task_type = "focus"     -> <<50, 20, 0>>
                  [] task_type = "important" -> <<20, 10, 0>>
                  [] task_type = "wish"      -> <<5, 2, 5>>
                  [] OTHER                   -> <<0, 0, 0>>
    IN  IF pepper
        THEN <<TimesPepper(base[1]), TimesPepper(base[2]), base[3]>>
        ELSE base

\* Faulty variant of level_loop: the comparison is strict.
RECURSIVE level_loop_strict(_, _)
level_loop_strict(new_xp, new_lvl) ==
    IF new_xp > new_lvl * 100
    THEN level_loop_strict(new_xp - new_lvl * 100, new_lvl + 1)
    ELSE <<new_xp, new_lvl>>

\* while new_xp >= new_lvl * 100: new_xp -= new_lvl * 100; new_lvl += 1
RECURSIVE level_loop(_, _)
level_loop(new_xp, new_lvl) ==
    IF new_xp >= new_lvl * 100
    THEN level_loop(new_xp - new_lvl * 100, new_lvl + 1)
    ELSE <<new_xp, new_lvl>>

\* Faulty variant of grant: the heal is not capped at 100.
grant_heal_uncapped(u, task_type) ==
    LET g  == calc_rewards(task_type, u.pepper_mode)
        lv == level_loop(u.xp + g[1], u.level)
    IN  [u EXCEPT !.xp = lv[1], !.level = lv[2],
                  !.hp = u.hp + g[3],
                  !.points = u.points + g[2]]

\* The user row task_done / reminder_done write for a task of that type.
grant(u, task_type) ==
    LET g  == calc_rewards(task_type, u.pepper_mode)
        lv == level_loop(u.xp + g[1], u.level)
    IN  [u EXCEPT !.xp = lv[1], !.level = lv[2],
                  !.hp = Min100(u.hp + g[3]),
                  !.points = u.points + g[2]]

\* ------------------------------------------------------------------ settlement
\* penalty_table.get(task_type, (0, 0)): (hp penalty, points penalty)
penalty_table(task_type) ==
    CASE task_type = "focus"     -> <<20, 5>>
      [] task_type = "important" -> <<10, 3>>
      [] task_type = "wish"      -> <<0, 2>>
      [] OTHER                   -> <<0, 0>>

\* done = sum(1 for t in tasks if t["completed"])
count_done(ts, day) == Len(SelectSeq(day, LAMBDA i : ts[i].completed))

\* Faulty variant of failed_tasks: the penalized flag is not looked at.
failed_tasks_any_unfinished(ts, day) ==
    SelectSeq(day, LAMBDA i : ~ts[i].completed)

\* failed = [t for t in tasks if not t["completed"] and not t["penalized"]]
failed_tasks(ts, day) ==
    SelectSeq(day, LAMBDA i : ~ts[i].completed /\ ~ts[i].penalized)

\* Faulty variant of penalty_step: the local shield flag is never reset.
penalty_step_shield_kept(acc, task_type) ==
    LET pen  == penalty_table(task_type)
        used == acc.shield /\ pen[1] > 0
    IN  [hp_loss   |-> acc.hp_loss + (IF used THEN 0 ELSE pen[1]),
         pts_loss  |-> acc.pts_loss + pen[2],
         shield    |-> acc.shield,
         nullified |-> acc.nullified + (IF used THEN 1 ELSE 0)]

\* One pass of the body of "for t in failed"; acc carries total_hp_loss,
\* total_pts_loss and the local shield flag (nullified counts the passes in
\* which the shield branch ran).
penalty_step(acc, task_type) ==
    LET pen  == penalty_table(task_type)
        used == acc.shield /\ pen[1] > 0
    IN  [hp_loss   |-> acc.hp_loss + (IF used THEN 0 ELSE pen[1]),
         pts_loss  |-> acc.pts_loss + pen[2],
         shield    |-> IF used THEN FALSE ELSE acc.shield,
         nullified |-> acc.nullified + (IF used THEN 1 ELSE 0)]

RECURSIVE penalty_loop(_, _, _)
penalty_loop(ts, failed, acc) ==
    IF failed = <<>> THEN acc
    ELSE penalty_loop(ts, Tail(failed), penalty_step(acc, ts[Head(failed)].task_type))

\* total_hp_loss = 0; total_pts_loss = 0; shield = bool(user["shield_active"])
penalties(u, ts, failed) ==
    penalty_loop(ts, failed,
                 [hp_loss |-> 0, pts_loss |-> 0,
                  shield |-> u.shield_active, nullified |-> 0])

\* Faulty variant of new_hp: no floor at 0.
new_hp_unclamped(u, total_hp_loss) == u.hp - total_hp_loss

\* new_hp = max(0, user["hp"] - total_hp_loss)
new_hp(u, total_hp_loss) == Max0(u.hp - total_hp_loss)

\* Faulty variant of new_pts: no floor at 0.
new_pts_unclamped(u, total_pts_loss) == u.points - total_pts_loss

\* new_pts = max(0, user["points"] - total_pts_loss)
new_pts(u, total_pts_loss) == Max0(u.points - total_pts_loss)

\* shield_now = 0 if user["shield_active"] and total_hp_loss > 0
\*              else user["shield_active"]
shield_now(u, total_hp_loss) ==
    IF u.shield_active /\ total_hp_loss > 0 THEN FALSE ELSE u.shield_active

\* Faulty variant of streak: pepper mode is switched on one day early.
streak_pepper_at_two(u, done, total, iso_date) ==
    IF done = total
    THEN <<u.pepper_streak + 1,
           IF u.pepper_streak + 1 >= 2 THEN TRUE ELSE u.pepper_mode,
           iso_date>>
    ELSE <<0, FALSE, u.last_perfect_date>>

\* Faulty variant of streak: a broken streak keeps a pepper mode that is on
\* (the first assignment of the else branch, without the second).
streak_keeps_pepper(u, done, total, iso_date) ==
    IF done = total
    THEN <<u.pepper_streak + 1,
           IF u.pepper_streak + 1 >= 3 THEN TRUE ELSE u.pepper_mode,
           iso_date>>
    ELSE <<0, u.pepper_mode, u.last_perfect_date>>

\* Faulty variant of streak: a broken streak switches pepper mode off and
\* leaves the count.
streak_not_reset(u, done, total, iso_date) ==
    IF done = total
    THEN <<u.pepper_streak + 1,
           IF u.pepper_streak + 1 >= 3 THEN TRUE ELSE u.pepper_mode,
           iso_date>>
    ELSE <<u.pepper_streak, FALSE, u.last_perfect_date>>

\* Faulty variant of streak: on a perfect day pepper mode is what the count
\* says, and a potion bought before is lost.
streak_drops_potion(u, done, total, iso_date) ==
    IF done = total
    THEN <<u.pepper_streak + 1, u.pepper_streak + 1 >= 3, iso_date>>
    ELSE <<0, FALSE, u.last_perfect_date>>

\* The streak branch: <<new_streak, new_pepper, last_perfect_date>>
streak(u, done, total, iso_date) ==
    IF done = total
    THEN <<u.pepper_streak + 1,
           IF u.pepper_streak + 1 >= 3 THEN TRUE ELSE u.pepper_mode,
           iso_date>>
    ELSE <<0, FALSE, u.last_perfect_date>>

\* The row db.update_user writes at the end of _process_evening.
settled_user(u, ts, iso_date) ==
    LET day == get_tasks_by_date(ts, iso_date)
        pen == penalties(u, ts, failed_tasks(ts, day))
        st  == streak(u, count_done(ts, day), Len(day), iso_date)
    IN  [u EXCEPT !.hp = new_hp(u, pen.hp_loss),
                  !.points = new_pts(u, pen.pts_loss),
                  !.shield_active = shield_now(u, pen.hp_loss),
                  !.pepper_mode = st[2],
                  !.pepper_streak = st[1],
                  !.last_perfect_date = st[3]]

\* What the summary message and the log line report (nullified: how often
\* the shield branch ran in this run; streak_was, pepper_was: the values of
\* user["pepper_streak"] and user["pepper_mode"] the run read).
NoOut ==
    [sent |-> FALSE, done |-> 0, total |-> 0, failed |-> <<>>,
     hp_loss |-> 0, pts_loss |-> 0, nullified |-> 0, again |-> FALSE,
     streak_was |-> 0, pepper_was |-> FALSE]

summary(u, ts, iso_date) ==
    LET day    == get_tasks_by_date(ts, iso_date)
        failed == failed_tasks(ts, day)
        pen    == penalties(u, ts, failed)
    IN  [sent |-> TRUE, done |-> count_done(ts, day), total |-> Len(day),
         failed |-> failed, hp_loss |-> pen.hp_loss, pts_loss |-> pen.pts_loss,
         nullified |-> pen.nullified, again |-> FALSE,
         streak_was |-> u.pepper_streak, pepper_was |-> u.pepper_mode]

\* ------------------------------------------------------------------ actions
\* task_skip_reminder / task_add_reminder: the last step of the task form
task_add(task_type) ==
    /\ Len(tasks) < MaxTasks
    /\ tasks' = Append(tasks, NewTask(task_type, Today))
    /\ out' = NoOut
    /\ UNCHANGED <<ran, user, nullified, bought>>
    /\ UNCHANGED await_vars
    /\ UNCHANGED side_vars

\* The part task_done and reminder_done share: guard, reward, two writes.
\* "if not task or task["completed"]: return" leaves every table as it is.
complete(task_id) ==
    /\ TaskExists(tasks, task_id)
    /\ ~tasks[task_id].completed
    /\ tasks' = complete_task(tasks, task_id)
    /\ user' = grant(user, tasks[task_id].task_type)
    /\ out' = NoOut
    /\ UNCHANGED <<ran, nullified, bought>>
    /\ UNCHANGED await_vars
    /\ UNCHANGED side_vars

\* callback tdone:<id>
task_done(task_id) == complete(task_id)

\* callback remdone:<id>
reminder_done(task_id) == complete(task_id)

\* callback tdel:<id>
task_delete(task_id) ==
    /\ TaskExists(tasks, task_id)
    /\ tasks' = delete_task(tasks, task_id)
    /\ out' = NoOut
    /\ UNCHANGED <<ran, user, nullified, bought>>
    /\ UNCHANGED await_vars
    /\ UNCHANGED side_vars

\* prices = {"shield": 50, "pepper": 100}; price = prices.get(item, 0)
\* Faulty variant of prices: the two prices are swapped.
prices_swapped(item) ==
    CASE item = "shield" -> 100 [] item = "pepper" -> 50 [] OTHER -> 0

prices(item) ==
    CASE item = "shield" -> 50 [] item = "pepper" -> 100 [] OTHER -> 0

\* The row shop_buy writes for an item the user can pay.
purchased(u, item) ==
    IF item = "shield"
    THEN [u EXCEPT !.points = u.points - prices(item), !.shield_active = TRUE]
    ELSE IF item = "pepper"
    THEN [u EXCEPT !.points = u.points - prices(item), !.pepper_mode = TRUE]
    ELSE u

\* callback buy:<item>
shop_buy(item) ==
    /\ user.points >= prices(item)
    /\ user' = purchased(user, item)
    /\ bought' = IF item = "shield" /\ ~user.shield_active
                 THEN bought + 1 ELSE bought
    /\ out' = NoOut
    /\ UNCHANGED <<ran, tasks, nullified>>
    /\ UNCHANGED await_vars
    /\ UNCHANGED side_vars

\* _process_evening for the user, with today's date
process_evening ==
    /\ IF get_tasks_by_date(tasks, Today) = <<>>
       THEN /\ out' = NoOut
            /\ UNCHANGED <<user, tasks, nullified>>
       ELSE /\ \/ user.pepper_streak < MaxStreak
               \/ count_done(tasks, get_tasks_by_date(tasks, Today))
                     # Len(get_tasks_by_date(tasks, Today))
            /\ user' = settled_user(user, tasks, Today)
            /\ tasks' = mark_tasks_penalized(tasks, Today)
            /\ out' = [summary(user, tasks, Today) EXCEPT !.again = out.sent]
            /\ nullified' = nullified + summary(user, tasks, Today).nullified
    /\ UNCHANGED bought
    /\ UNCHANGED await_vars
    /\ UNCHANGED side_vars

\* Midnight: date.today() moves on, so every stored date is one day older.
midnight ==
    /\ tasks' = [i \in 1..Len(tasks) |->
                    [tasks[i] EXCEPT !.created_date = Aged(tasks[i].created_date)]]
    /\ user' = [user EXCEPT !.last_perfect_date = AgedDay(user.last_perfect_date)]
    /\ out' = NoOut
    /\ UNCHANGED <<nullified, bought>>
    /\ UNCHANGED await_vars
    /\ UNCHANGED side_vars

\* ------------------------------------------------------------------ specification
\* Rows of the users table that earlier play leaves in bot.db.  main() opens
\* the existing file and create_user is INSERT OR IGNORE, so the process
\* starts from the stored row:
\*   the new row;
\*   four important tasks completed, then four focus tasks, an important one
\*   and nine wishes failed;
\*   two focus tasks and an important one added and completed yesterday, and
\*   yesterday's settlement run.
StoredUsers ==
    { NewUser,
      [NewUser EXCEPT !.xp = 80, !.hp = 10],
      [NewUser EXCEPT !.level = 2, !.xp = 20, !.points = 50,
                      !.pepper_streak = 1, !.last_perfect_date = Yesterday] }

\* After main(): the tables exist, the admin row is the stored one, and the
\* rows of the tasks table are counted from here.
InitStore ==
    /\ ran = FALSE
    /\ user \in StoredUsers
    /\ tasks = <<>>
    /\ out = NoOut
    /\ nullified = 0
    /\ bought = 0
    /\ rewards = <<>>
    /\ calls = <<>>
    /\ started = 0
    /\ grants = [i \in 1..MaxTasks |-> 0]
    /\ debits = [i \in 1..MaxRewards |-> 0]

\* ADMIN_ID and the accounts that write to the bot
Admin == 1
Uids == 1..MaxUsers

\* No recurring job has run.
NoRun ==
    [job |-> "none", running |-> FALSE, listed |-> <<>>, queue |-> <<>>,
     visited |-> {}, raised |-> {}]

\* main(): add_to_whitelist(ADMIN_ID), create_user(ADMIN_ID)
InitUsers ==
    /\ whitelist = {Admin}
    /\ records = {Admin}
    /\ tasked = {}
    /\ run = NoRun
    /\ served = {}
    /\ escaped = {}
    /\ rate = [asked |-> FALSE, done |-> 0, total |-> 0]
    /\ ideas = [categories |-> 0, ideas |-> 0]

\* No handler has answered yet.
InitIdle ==
    /\ InitUsers
    /\ reply = NoReply
    /\ form = NoForm
    /\ now = Morning
    /\ jobs = <<>>
    /\ reminder_time = <<>>
    /\ fired = {}
    /\ notified = {}

\* The ledger is kept by the coroutine-level specification only.
Init ==
    /\ InitStore
    /\ InitIdle
    /\ is_sun = FALSE
    /\ ledger = [points |-> 0, xp |-> 0, settled |-> FALSE]

\* The evening job whenever it is started: by the trigger, or again after a
\* restart within misfire_grace_time.
evening_summary_job == process_evening /\ UNCHANGED ran

next_day == midnight /\ UNCHANGED ran

Next ==
    \/ \E t \in TaskTypes : task_add(t)
    \/ \E i \in 1..MaxTasks : task_done(i)
    \/ \E i \in 1..MaxTasks : reminder_done(i)
    \/ \E i \in 1..MaxTasks : task_delete(i)
    \/ \E it \in Items : shop_buy(it)
    \/ evening_summary_job
    \/ next_day

Spec == Init /\ [][Next]_vars

\* ------------------------------------------------------------------ coroutines
\* One Sunday of the running bot with every handler and the evening job as the
\* coroutine it is: dp.start_polling hands each update to its own asyncio task
\* and AsyncIOScheduler runs the job on the same loop, so a coroutine runs from
\* one await on the database to the next, and between two of its awaits any
\* other coroutine may run.  One step below is one database call together
\* with the code up to the next one.  Sending messages is left out.
NoRead == "none"

Call(op, arg, pc, row, u) ==
    [op |-> op, arg |-> arg, pc |-> pc, row |-> row, u |-> u]

\* Coroutine k is one of ops and suspended before the call named pc.
At(k, ops, pc) ==
    k \in 1..Len(calls) /\ calls[k].op \in ops /\ calls[k].pc = pc

\* Coroutine k goes on to the call named pc.
Moved(k, pc) == [calls EXCEPT ![k].pc = pc]

\* Coroutine k returns.
Without(k) == SubSeq(calls, 1, k - 1) \o SubSeq(calls, k + 1, Len(calls))

\* rewards row as add_reward inserts it (database.py:181-188)
NewReward(cost) == [cost |-> cost, claimed |-> FALSE, deleted |-> FALSE]

DeletedReward == [cost |-> 0, claimed |-> FALSE, deleted |-> TRUE]

\* get_reward(id) returns a row
RewardExists(rs, id) == id \in 1..Len(rs) /\ ~rs[id].deleted

\* claim_reward: UPDATE rewards SET claimed = 1 WHERE id = ?
claim_reward(rs, id) ==
    IF RewardExists(rs, id) THEN [rs EXCEPT ![id].claimed = TRUE] ELSE rs

\* Faulty variant of week_rate_over: the comparison is not strict.
week_rate_at_least(ts, pct) ==
    LET rows == {i \in 1..Len(ts) : ~ts[i].deleted}
        done == Cardinality({i \in rows : ts[i].completed})
    IN  rows # {} /\ done * 100 >= pct * Cardinality(rows)

\* get_week_completion_rate(...) > pct, without the division: the rows of the
\* last 7 days are those of the day modelled here.
week_rate_over(ts, pct) ==
    LET rows == {i \in 1..Len(ts) : ~ts[i].deleted}
        done == Cardinality({i \in rows : ts[i].completed})
    IN  rows # {} /\ done * 100 > pct * Cardinality(rows)

\* task_done and reminder_done run the same statements on the same tables, so
\* one kind of coroutine stands for both.  First call:
\* task = await db.get_task(task_id); "if not task or task["completed"]: return"
\* ends the coroutine at once.
done_get_task(task_id) ==
    /\ started < MaxCalls
    /\ started' = started + 1
    /\ TaskExists(tasks, task_id)
    /\ ~tasks[task_id].completed
    /\ calls' = Append(calls, Call("done", task_id, "get_user", tasks[task_id], NoRead))
    /\ UNCHANGED <<user, tasks, rewards, is_sun, grants, debits, ledger>>
    /\ UNCHANGED atomic_vars
    /\ UNCHANGED side_vars

\* callback tdone:<id>
tdone_get_task(task_id) == done_get_task(task_id)

\* callback remdone:<id>
remdone_get_task(task_id) == done_get_task(task_id)

\* user = await db.get_user(...), then the reward is computed from it
done_get_user(k) ==
    /\ At(k, {"done"}, "get_user")
    /\ calls' = [calls EXCEPT ![k].pc = "complete_task", ![k].u = user]
    /\ UNCHANGED <<user, tasks, rewards, is_sun, grants, debits, ledger>>
    /\ UNCHANGED atomic_vars
    /\ UNCHANGED started
    /\ UNCHANGED side_vars

\* await db.complete_task(task_id)
done_complete_task(k) ==
    /\ At(k, {"done"}, "complete_task")
    /\ tasks' = IF TaskExists(tasks, calls[k].arg)
                THEN complete_task(tasks, calls[k].arg) ELSE tasks
    /\ calls' = Moved(k, "update_user")
    /\ UNCHANGED <<user, rewards, is_sun, grants, debits, ledger>>
    /\ UNCHANGED atomic_vars
    /\ UNCHANGED started
    /\ UNCHANGED side_vars

\* await db.update_user(..., xp=new_xp, level=new_lvl, hp=new_hp, points=new_pts)
done_update_user(k) ==
    /\ At(k, {"done"}, "update_user")
    /\ LET w == grant(calls[k].u, calls[k].row.task_type)
           g == calc_rewards(calls[k].row.task_type, calls[k].u.pepper_mode)
       IN  /\ user' = [user EXCEPT !.xp = w.xp, !.level = w.level,
                                   !.hp = w.hp, !.points = w.points]
           /\ ledger' = [ledger EXCEPT !.points = @ + g[2], !.xp = @ + g[1]]
    /\ grants' = [grants EXCEPT ![calls[k].arg] = @ + 1]
    /\ calls' = Without(k)
    /\ UNCHANGED <<tasks, rewards, is_sun, debits>>
    /\ UNCHANGED atomic_vars
    /\ UNCHANGED started
    /\ UNCHANGED side_vars

\* buy:<item>, first call: user = await db.get_user(...); the handler returns
\* if user["points"] < price and else computes new_pts.
buy_get_user(item) ==
    /\ started < MaxCalls
    /\ started' = started + 1
    /\ user.points >= prices(item)
    /\ calls' = Append(calls, Call("buy", item, "update_user", NoRead, user))
    /\ UNCHANGED <<user, tasks, rewards, is_sun, grants, debits, ledger>>
    /\ UNCHANGED atomic_vars
    /\ UNCHANGED side_vars

\* await db.update_user(..., points=new_pts, shield_active=1) or
\* await db.update_user(..., points=new_pts, pepper_mode=1)
buy_update_user(k) ==
    /\ At(k, {"buy"}, "update_user")
    /\ LET item == calls[k].arg
           w    == purchased(calls[k].u, item)
       IN  /\ user' = [user EXCEPT
                         !.points = w.points,
                         !.shield_active = IF item = "shield" THEN TRUE ELSE @,
                         !.pepper_mode = IF item = "pepper" THEN TRUE ELSE @]
           /\ ledger' = [ledger EXCEPT !.points = @ - prices(item)]
    /\ calls' = Without(k)
    /\ UNCHANGED <<tasks, rewards, is_sun, grants, debits>>
    /\ UNCHANGED atomic_vars
    /\ UNCHANGED started
    /\ UNCHANGED side_vars

\* The last step of the reward form: await db.add_reward(..., cost)
reward_add(cost) ==
    /\ Len(rewards) < MaxRewards
    /\ rewards' = Append(rewards, NewReward(cost))
    /\ UNCHANGED <<user, tasks, is_sun, calls, grants, debits, ledger>>
    /\ UNCHANGED atomic_vars
    /\ UNCHANGED started
    /\ UNCHANGED side_vars

\* rdel:<id>: await db.delete_reward(rid)
reward_del(rid) ==
    /\ RewardExists(rewards, rid)
    /\ rewards' = [rewards EXCEPT ![rid] = DeletedReward]
    /\ UNCHANGED <<user, tasks, is_sun, calls, grants, debits, ledger>>
    /\ UNCHANGED atomic_vars
    /\ UNCHANGED started
    /\ UNCHANGED side_vars

\* rclaim:<id>, first call: reward = await db.get_reward(rid); the handler
\* returns if there is no such row.
rclaim_get_reward(rid) ==
    /\ started < MaxCalls
    /\ started' = started + 1
    /\ RewardExists(rewards, rid)
    /\ calls' = Append(calls, Call("rclaim", rid, "get_user", rewards[rid], NoRead))
    /\ UNCHANGED <<user, tasks, rewards, is_sun, grants, debits, ledger>>
    /\ UNCHANGED atomic_vars
    /\ UNCHANGED side_vars

\* user = await db.get_user(...)
rclaim_get_user(k) ==
    /\ At(k, {"rclaim"}, "get_user")
    /\ calls' = [calls EXCEPT ![k].pc = "get_rate", ![k].u = user]
    /\ UNCHANGED <<user, tasks, rewards, is_sun, grants, debits, ledger>>
    /\ UNCHANGED atomic_vars
    /\ UNCHANGED started
    /\ UNCHANGED side_vars

\* rate = await db.get_week_completion_rate(...), then the two checks:
\* "if not is_sun or rate <= 80: return", "if user["points"] < cost: return"
rclaim_get_rate(k) ==
    /\ At(k, {"rclaim"}, "get_rate")
    /\ calls' = IF /\ is_sun
                   /\ week_rate_over(tasks, 80)
                   /\ calls[k].u.points >= calls[k].row.cost
                THEN Moved(k, "update_user")
                ELSE Without(k)
    /\ UNCHANGED <<user, tasks, rewards, is_sun, grants, debits, ledger>>
    /\ UNCHANGED atomic_vars
    /\ UNCHANGED started
    /\ UNCHANGED side_vars

\* new_pts = user["points"] - reward["cost"]
\* await db.update_user(..., points=new_pts)
rclaim_update_user(k) ==
    /\ At(k, {"rclaim"}, "update_user")
    /\ user' = [user EXCEPT !.points = calls[k].u.points - calls[k].row.cost]
    /\ debits' = [debits EXCEPT ![calls[k].arg] = @ + 1]
    /\ ledger' = [ledger EXCEPT !.points = @ - calls[k].row.cost]
    /\ calls' = Moved(k, "claim_reward")
    /\ UNCHANGED <<tasks, rewards, is_sun, grants>>
    /\ UNCHANGED atomic_vars
    /\ UNCHANGED started
    /\ UNCHANGED side_vars

\* await db.claim_reward(rid)
rclaim_claim_reward(k) ==
    /\ At(k, {"rclaim"}, "claim_reward")
    /\ rewards' = claim_reward(rewards, calls[k].arg)
    /\ calls' = Without(k)
    /\ UNCHANGED <<user, tasks, is_sun, grants, debits, ledger>>
    /\ UNCHANGED atomic_vars
    /\ UNCHANGED started
    /\ UNCHANGED side_vars

\* _process_evening, first call: tasks = await db.get_tasks_by_date(uid, today);
\* "if not tasks: return".  The rows read are what done, total and failed are
\* computed from.  The trigger fires once on the day modelled.
evening_get_tasks ==
    /\ started < MaxCalls
    /\ started' = started + 1
    /\ ~ran
    /\ ran' = TRUE
    /\ user.pepper_streak < MaxStreak
    /\ get_tasks_by_date(tasks, Today) # <<>>
    /\ calls' = Append(calls, Call("evening", Today, "get_user", tasks, NoRead))
    /\ UNCHANGED <<user, tasks, rewards, is_sun, grants, debits, ledger>>
    /\ UNCHANGED <<out, nullified, bought>>
    /\ UNCHANGED side_vars

\* user = await db.get_user(uid), then penalties and streak are computed
evening_get_user(k) ==
    /\ At(k, {"evening"}, "get_user")
    /\ calls' = [calls EXCEPT ![k].pc = "update_user", ![k].u = user]
    /\ UNCHANGED <<user, tasks, rewards, is_sun, grants, debits, ledger>>
    /\ UNCHANGED atomic_vars
    /\ UNCHANGED started
    /\ UNCHANGED side_vars

\* await db.update_user(uid, hp=, points=, shield_active=, pepper_mode=,
\*                      pepper_streak=, last_perfect_date=)
evening_update_user(k) ==
    /\ At(k, {"evening"}, "update_user")
    /\ LET w == settled_user(calls[k].u, calls[k].row, calls[k].arg)
       IN  user' = [user EXCEPT !.hp = w.hp, !.points = w.points,
                                !.shield_active = w.shield_active,
                                !.pepper_mode = w.pepper_mode,
                                !.pepper_streak = w.pepper_streak,
                                !.last_perfect_date = w.last_perfect_date]
    /\ ledger' = [ledger EXCEPT !.settled = TRUE]
    /\ calls' = Moved(k, "mark_tasks_penalized")
    /\ UNCHANGED <<tasks, rewards, is_sun, grants, debits>>
    /\ UNCHANGED atomic_vars
    /\ UNCHANGED started
    /\ UNCHANGED side_vars

\* await db.mark_tasks_penalized(uid, today)
evening_mark_tasks_penalized(k) ==
    /\ At(k, {"evening"}, "mark_tasks_penalized")
    /\ tasks' = mark_tasks_penalized(tasks, calls[k].arg)
    /\ calls' = Without(k)
    /\ UNCHANGED <<user, rewards, is_sun, grants, debits, ledger>>
    /\ UNCHANGED atomic_vars
    /\ UNCHANGED started
    /\ UNCHANGED side_vars

InitAwait ==
    /\ InitStore
    /\ InitIdle
    /\ is_sun = TRUE
    /\ ledger = [points |-> user.points, xp |-> TotalXp(user), settled |-> FALSE]

NextAwait ==
    \/ \E t \in TaskTypes : task_add(t)
    \/ \E c \in RewardCosts : reward_add(c)
    \/ \E i \in 1..MaxRewards : reward_del(i)
    \/ \E i \in 1..MaxTasks : tdone_get_task(i)
    \/ \E i \in 1..MaxTasks : remdone_get_task(i)
    \/ \E it \in Items : buy_get_user(it)
    \/ \E i \in 1..MaxRewards : rclaim_get_reward(i)
    \/ evening_get_tasks
    \/ \E k \in 1..MaxCalls :
          \/ done_get_user(k)
          \/ done_complete_task(k)
          \/ done_update_user(k)
          \/ buy_update_user(k)
          \/ rclaim_get_user(k)
          \/ rclaim_get_rate(k)
          \/ rclaim_update_user(k)
          \/ rclaim_claim_reward(k)
          \/ evening_get_user(k)
          \/ evening_update_user(k)
          \/ evening_mark_tasks_penalized(k)

SpecAwait == InitAwait /\ [][NextAwait]_vars

\* The daily trigger taken at its word: the evening job fires once every day
\* (CronTrigger(hour=21, minute=0) in a running scheduler) and midnight follows.
evening_once == ~ran /\ process_evening /\ ran' = TRUE

midnight_after_evening == ran /\ midnight /\ ran' = FALSE

NextDaily ==
    \/ \E t \in TaskTypes : task_add(t)
    \/ \E i \in 1..MaxTasks : task_done(i)
    \/ \E i \in 1..MaxTasks : reminder_done(i)
    \/ \E i \in 1..MaxTasks : task_delete(i)
    \/ \E it \in Items : shop_buy(it)
    \/ evening_once
    \/ midnight_after_evening

SpecDaily ==
    /\ Init
    /\ [][NextDaily]_vars
    /\ WF_vars(evening_once)
    /\ WF_vars(midnight_after_evening)

\* ------------------------------------------------------------------ text input
\* A text is the sequence of its characters.
Digits == <<"0", "1", "2", "3", "4", "5", "6", "7", "8", "9">>

IsDigit(c) == \E i \in 1..10 : Digits[i] = c

\* int() of one digit
DigitVal(c) == (CHOOSE i \in 1..10 : Digits[i] = c) - 1

\* Characters str.strip() removes and the regular expression's \s matches.
Whitespace == {" ", "\t", "\n"}

RECURSIVE lstrip(_)
lstrip(text) ==
    IF text # <<>> /\ Head(text) \in Whitespace THEN lstrip(Tail(text)) ELSE text

RECURSIVE rstrip(_)
rstrip(text) ==
    IF text # <<>> /\ text[Len(text)] \in Whitespace
    THEN rstrip(SubSeq(text, 1, Len(text) - 1)) ELSE text

\* text.strip()
strip(text) == rstrip(lstrip(text))

AllDigits(text) == \A i \in 1..Len(text) : IsDigit(text[i])

\* int() of a non-empty run of digits
RECURSIVE ToInt(_)
ToInt(ds) ==
    IF ds = <<>> THEN 0
    ELSE 10 * ToInt(SubSeq(ds, 1, Len(ds) - 1)) + DigitVal(ds[Len(ds)])

\* "no value": parse_time's None, a NULL reminder_time
None == <<>>

\* Faulty variant of parse_time: the hour 24 and the minute 60 pass.
parse_time_inclusive(text) ==
    LET t == strip(text)
        n == Len(t) - 3
    IN  IF /\ n \in {1, 2}
           /\ AllDigits(SubSeq(t, 1, n))
           /\ t[n + 1] \in Whitespace \cup {":", "."}
           /\ AllDigits(SubSeq(t, n + 2, n + 3))
        THEN LET hour   == ToInt(SubSeq(t, 1, n))
                 minute == ToInt(SubSeq(t, n + 2, n + 3))
             IN  IF 0 <= hour /\ hour <= 24 /\ 0 <= minute /\ minute <= 60
                 THEN <<hour, minute>> ELSE None
        ELSE None

\* parse_time: _TIME_RE = ^(\d{1,2})[\s:\.](\d{2})$ on text.strip(), then
\* 0 <= hour <= 23 and 0 <= minute <= 59; <<hour, minute>> or None
parse_time(text) ==
    LET t == strip(text)
        n == Len(t) - 3
    IN  IF /\ n \in {1, 2}
           /\ AllDigits(SubSeq(t, 1, n))
           /\ t[n + 1] \in Whitespace \cup {":", "."}
           /\ AllDigits(SubSeq(t, n + 2, n + 3))
        THEN LET hour   == ToInt(SubSeq(t, 1, n))
                 minute == ToInt(SubSeq(t, n + 2, n + 3))
             IN  IF 0 <= hour /\ hour <= 23 /\ 0 <= minute /\ minute <= 59
                 THEN <<hour, minute>> ELSE None
        ELSE None

\* f"{hour:02d}:{minute:02d}"
rem_str(hour, minute) ==
    <<Digits[(hour \div 10) + 1], Digits[(hour % 10) + 1], ":",
      Digits[(minute \div 10) + 1], Digits[(minute % 10) + 1]>>

\* restore_reminders: parts = t["reminder_time"].split(":");
\* hour, minute = int(parts[0]), int(parts[1]); None where that raises
stored_time(text) ==
    LET colons == {i \in 1..Len(text) : text[i] = ":"}
    IN  IF colons = {} THEN None
        ELSE LET c    == CHOOSE i \in colons : \A j \in colons : i <= j
                 rest == SubSeq(text, c + 1, Len(text))
                 more == {i \in 1..Len(rest) : rest[i] = ":"}
                 e    == IF more = {} THEN Len(rest)
                         ELSE (CHOOSE i \in more : \A j \in more : i <= j) - 1
                 p0   == strip(SubSeq(text, 1, c - 1))
                 p1   == strip(SubSeq(rest, 1, e))
             IN  IF p0 # <<>> /\ AllDigits(p0) /\ p1 # <<>> /\ AllDigits(p1)
                 THEN <<ToInt(p0), ToInt(p1)>> ELSE None

\* reward_add_cost: cost = int(msg.text); "if cost <= 0: raise ValueError";
\* <<cost>>, or None where ValueError is caught
parse_cost(text) ==
    LET t    == strip(text)
        sign == t # <<>> /\ Head(t) \in {"+", "-"}
        ds   == IF sign THEN Tail(t) ELSE t
    IN  IF ds # <<>> /\ AllDigits(ds)
           /\ (IF sign /\ Head(t) = "-" THEN 0 - ToInt(ds) ELSE ToInt(ds)) > 0
        THEN <<IF sign /\ Head(t) = "-" THEN 0 - ToInt(ds) ELSE ToInt(ds)>>
        ELSE None

\* ------------------------------------------------------------------ store failures
\* The coroutines of a completion and of the settlement with writes that may
\* raise.  Every Database method runs its own execute and commit
\* (database.py:112-120, 160-165, 171-179), so what a coroutine has written
\* before the call that raises stays written.
WriteCalls == {"complete_task", "update_user", "mark_tasks_penalized", "claim_reward"}

\* The write coroutine k is suspended before raises: nothing is written, the
\* exception ends the handler, or the loop body of the evening job, and is
\* logged.
store_raises(k) ==
    /\ k \in 1..Len(calls)
    /\ calls[k].pc \in WriteCalls
    /\ calls' = Without(k)
    /\ UNCHANGED <<user, tasks, rewards, is_sun, grants, debits, ledger>>
    /\ UNCHANGED atomic_vars
    /\ UNCHANGED started
    /\ UNCHANGED side_vars

\* A day with a focus and an important task, before anything is completed.
InitFail ==
    /\ ran = FALSE
    /\ user \in StoredUsers
    /\ tasks = <<NewTask("focus", Today), NewTask("important", Today)>>
    /\ out = NoOut
    /\ nullified = 0
    /\ bought = 0
    /\ rewards = <<>>
    /\ is_sun = FALSE
    /\ calls = <<>>
    /\ started = 0
    /\ grants = [i \in 1..MaxTasks |-> 0]
    /\ debits = [i \in 1..MaxRewards |-> 0]
    /\ ledger = [points |-> user.points, xp |-> TotalXp(user), settled |-> FALSE]
    /\ InitUsers
    /\ reply = NoReply
    /\ form = NoForm
    /\ now = Morning
    /\ jobs = <<>>
    /\ reminder_time = <<None, None>>
    /\ fired = {}
    /\ notified = {}

NextFail ==
    \/ \E i \in 1..MaxTasks : tdone_get_task(i)
    \/ evening_get_tasks
    \/ \E k \in 1..MaxCalls :
          \/ done_get_user(k)
          \/ done_complete_task(k)
          \/ done_update_user(k)
          \/ evening_get_user(k)
          \/ evening_update_user(k)
          \/ evening_mark_tasks_penalized(k)
          \/ store_raises(k)

SpecFail == InitFail /\ [][NextFail]_vars

\* ------------------------------------------------------------------ reward gate
\* The rewards screen and the claim button, each handler as one step, from
\* every stored week: a tasks table of up to MaxWeekTasks rows of the last
\* seven days, any weekday, one reward and a user who can or cannot pay it.

\* is_sun and rate > 80 (show_rewards), not (not is_sun or rate <= 80)
\* (reward_claim)
gate_open(sun, ts) == sun /\ week_rate_over(ts, 80)

\* message "Награды": the status line and the keyboard
show_rewards ==
    /\ reply' = Reply("show_rewards",
                       IF ~is_sun THEN "sunday only"
                       ELSE IF ~week_rate_over(tasks, 80) THEN "rate too low"
                       ELSE "can claim",
                       gate_open(is_sun, tasks))
    /\ UNCHANGED <<user, tasks>>
    /\ UNCHANGED atomic_vars
    /\ UNCHANGED await_vars
    /\ UNCHANGED <<form, now, jobs, reminder_time, fired, notified>>
    /\ UNCHANGED job_vars

\* Faulty variant of reward_claim: the funds are checked before the gate.
reward_claim_funds_first(rid) ==
    /\ IF ~RewardExists(rewards, rid)
       THEN /\ reply' = Reply("reward_claim", "not found", FALSE)
            /\ UNCHANGED <<user, rewards, debits>>
       ELSE IF user.points < rewards[rid].cost
       THEN /\ reply' = Reply("reward_claim", "not enough points", FALSE)
            /\ UNCHANGED <<user, rewards, debits>>
       ELSE IF ~gate_open(is_sun, tasks)
       THEN /\ reply' = Reply("reward_claim", "conditions not met", FALSE)
            /\ UNCHANGED <<user, rewards, debits>>
       ELSE /\ user' = [user EXCEPT !.points = user.points - rewards[rid].cost]
            /\ rewards' = claim_reward(rewards, rid)
            /\ debits' = [debits EXCEPT ![rid] = @ + 1]
            /\ reply' = Reply("reward_claim", "claimed", FALSE)
    /\ UNCHANGED <<tasks, is_sun, calls, started, grants, ledger>>
    /\ UNCHANGED atomic_vars
    /\ UNCHANGED <<form, now, jobs, reminder_time, fired, notified>>
    /\ UNCHANGED job_vars

\* callback rclaim:<id>, the handler in one step.  Answers: "Награда не
\* найдена!", "Условия не выполнены!", "Недостаточно очков!", "Получено!".
reward_claim(rid) ==
    /\ IF ~RewardExists(rewards, rid)
       THEN /\ reply' = Reply("reward_claim", "not found", FALSE)
            /\ UNCHANGED <<user, rewards, debits>>
       ELSE IF ~gate_open(is_sun, tasks)
       THEN /\ reply' = Reply("reward_claim", "conditions not met", FALSE)
            /\ UNCHANGED <<user, rewards, debits>>
       ELSE IF user.points < rewards[rid].cost
       THEN /\ reply' = Reply("reward_claim", "not enough points", FALSE)
            /\ UNCHANGED <<user, rewards, debits>>
       ELSE /\ user' = [user EXCEPT !.points = user.points - rewards[rid].cost]
            /\ rewards' = claim_reward(rewards, rid)
            /\ debits' = [debits EXCEPT ![rid] = @ + 1]
            /\ reply' = Reply("reward_claim", "claimed", FALSE)
    /\ UNCHANGED <<tasks, is_sun, calls, started, grants, ledger>>
    /\ UNCHANGED atomic_vars
    /\ UNCHANGED <<form, now, jobs, reminder_time, fired, notified>>
    /\ UNCHANGED job_vars

\* Tables of n rows of the last seven days, completed or not.
RECURSIVE WeekTables(_)
WeekTables(n) ==
    IF n = 0 THEN {<<>>}
    ELSE LET shorter == WeekTables(n - 1)
         IN  shorter \cup
             { Append(ts, [NewTask("focus", Today) EXCEPT !.completed = c]) :
                 ts \in {t \in shorter : Len(t) = n - 1}, c \in BOOLEAN }

\* Points around the cost of the reward.
GateUsers == { [NewUser EXCEPT !.points = p] : p \in {0, 19, 20, 45} }

InitGate ==
    /\ ran = FALSE
    /\ user \in GateUsers
    /\ tasks \in WeekTables(MaxWeekTasks)
    /\ out = NoOut
    /\ nullified = 0
    /\ bought = 0
    /\ rewards = <<NewReward(20)>>
    /\ is_sun \in BOOLEAN
    /\ calls = <<>>
    /\ started = 0
    /\ grants = [i \in 1..MaxTasks |-> 0]
    /\ debits = [i \in 1..MaxRewards |-> 0]
    /\ ledger = [points |-> 0, xp |-> 0, settled |-> FALSE]
    /\ InitIdle

NextGate ==
    \/ show_rewards
    \/ \E rid \in 1..MaxRewards + 1 : reward_claim(rid)

SpecGate == InitGate /\ [][NextGate]_vars

\* ------------------------------------------------------------------ shop
\* The shop button as one step with its answer, from every stored user row
\* around the two prices.  Answers: "Недостаточно очков!" (alert), "Куплено!".
buy(item) ==
    /\ IF user.points < prices(item)
       THEN /\ reply' = Reply("shop_buy", "not enough points", FALSE)
            /\ UNCHANGED <<user, bought>>
       ELSE /\ user' = purchased(user, item)
            /\ bought' = IF item = "shield" /\ ~user.shield_active
                         THEN bought + 1 ELSE bought
            /\ reply' = Reply("shop_buy", item, FALSE)
    /\ UNCHANGED <<ran, tasks, out, nullified>>
    /\ UNCHANGED await_vars
    /\ UNCHANGED <<form, now, jobs, reminder_time, fired, notified>>
    /\ UNCHANGED job_vars

ShopUsers ==
    { [NewUser EXCEPT !.points = p, !.shield_active = s, !.pepper_mode = m,
                      !.pepper_streak = k, !.hp = h, !.xp = 30] :
        p \in {0, 49, 50, 99, 100, 250}, s \in BOOLEAN, m \in BOOLEAN,
        k \in {0, 2}, h \in {100, 40} }

InitShop ==
    /\ ran = FALSE
    /\ user \in ShopUsers
    /\ tasks = <<>>
    /\ out = NoOut
    /\ nullified = 0
    /\ bought = 0
    /\ rewards = <<>>
    /\ is_sun = FALSE
    /\ calls = <<>>
    /\ started = 0
    /\ grants = [i \in 1..MaxTasks |-> 0]
    /\ debits = [i \in 1..MaxRewards |-> 0]
    /\ ledger = [points |-> 0, xp |-> 0, settled |-> FALSE]
    /\ InitIdle

NextShop == \E it \in Items : buy(it)

SpecShop == InitShop /\ [][NextShop]_vars

\* ------------------------------------------------------------------ one day
\* One day, Sunday or not, with the week's tasks in the table and a reward
\* to claim: completions by either button, purchases, claims and the evening
\* job, one after the other.
NextFrame ==
    \/ \E i \in 1..MaxWeekTasks : task_done(i)
    \/ \E i \in 1..MaxWeekTasks : reminder_done(i)
    \/ \E it \in Items : shop_buy(it)
    \/ \E rid \in 1..MaxRewards : reward_claim(rid)
    \/ evening_summary_job

SpecFrame == InitGate /\ [][NextFrame]_vars

\* ------------------------------------------------------------------ forms and reminders
\* One day of the task form, the reward form, the reminder jobs and restarts,
\* each handler and job as one step.

\* handlers._scheduler: "Set by main.py at startup" (handlers.py:26-27), and
\* assigned nowhere; main() stores its scheduler in dp["scheduler"] only.
scheduler_handle == FALSE

\* The texts of the six main-menu buttons, each kept whole:
\* "📋 Задачи", "🧙 Профиль", "🛒 Магазин", "🎁 Награды", "💡 Идеи", "👥 Юзеры"
MENU_BUTTONS ==
    { <<"Tasks">>, <<"Profile">>, <<"Shop">>, <<"Rewards">>, <<"Ideas">>,
      <<"Users">> }

\* The text of a main-menu button whose own handler is registered after the
\* handlers of the task form and the reward form, so that in those forms the
\* message reaches the form's handler.
MenuText == <<"Ideas">>

\* A text that is a name: no menu button, not empty.
NameText == <<"n">>

\* What the user types at the reminder step.
TimeTexts ==
    { <<"9", ":", "0", "5">>, <<"0", "9", ".", "0", "5">>,
      <<"1", "6", " ", "0", "0">>, <<" ", "9", ":", "0", "0", " ">>,
      <<"2", "4", ":", "0", "0">>, <<"1", "2", ":", "6", "0">>,
      <<"9", ":", "5">>, <<"9", "0", "5">>, <<"1", "2", "3", ":", "0", "0">>,
      <<"s", "o", "o", "n">>, <<>>, MenuText }

\* What the user types at the cost step.
CostTexts ==
    { <<"2", "0">>, <<" ", "+", "2", "0">>, <<"0">>, <<"-", "5">>,
      <<"2", ".", "5">>, <<"f", "r", "e", "e">>, <<>>, MenuText }

\* The task type chosen in the form; the reminder does not depend on it.
FormTypes == {"important"}

\* Times of day the clock is looked at.
Instants == {540, 545, 960}

\* run_time = now.replace(hour=hour, minute=minute, second=0, microsecond=0),
\* in minutes since midnight; run_time > now compares it with the minute of
\* now, since now's seconds are not below 0.
run_time(hm) == hm[1] * 60 + hm[2]

\* Faulty variant of add_job: the job is added beside one of the same id.
add_job_beside(js, id, at) == Append(js, [id |-> id, at |-> at])

\* scheduler.add_job(..., DateTrigger(run_date=at), id=f"rem_{id}",
\*                   replace_existing=True)
add_job(js, id, at) ==
    Append(SelectSeq(js, LAMBDA j : j.id # id), [id |-> id, at |-> at])

\* Faulty variant of restorable: the time is not compared with now.
restorable_any_time(ts, rt, id, t_now) ==
    /\ ~ts[id].completed
    /\ rt[id] # None
    /\ stored_time(rt[id]) # None

\* restore_reminders, the tests inside the loop over a user's tasks of today:
\* not completed, a reminder_time, one that splits into hour and minute, and
\* run_time > now
restorable(ts, rt, id, t_now) ==
    /\ ~ts[id].completed
    /\ rt[id] # None
    /\ stored_time(rt[id]) # None
    /\ run_time(stored_time(rt[id])) > t_now

\* restore_reminders, the loop over get_tasks_by_date(uid, today)
RECURSIVE restore_loop(_, _, _, _, _)
restore_loop(js, ts, rt, day, t_now) ==
    IF day = <<>> THEN js
    ELSE restore_loop(
             IF restorable(ts, rt, Head(day), t_now)
             THEN add_job(js, Head(day), run_time(stored_time(rt[Head(day)])))
             ELSE js,
             ts, rt, Tail(day), t_now)

\* callback tadd, in whatever state: the form waits for the name.
\* set_state leaves the form's data as it is.
task_add_start ==
    /\ form' = [form EXCEPT !.state = "TaskForm.name"]
    /\ reply' = Reply("task_add_start", "enter name", FALSE)
    /\ UNCHANGED <<user, tasks, now, jobs, reminder_time, fired, notified>>
    /\ UNCHANGED job_vars
    /\ UNCHANGED atomic_vars
    /\ UNCHANGED await_vars

\* A message at the name step.
task_add_name(text) ==
    /\ form.state = "TaskForm.name"
    /\ IF text \in MENU_BUTTONS
       THEN /\ form' = NoForm
            /\ reply' = Reply("task_add_name", "cancelled", FALSE)
       ELSE /\ form' = [form EXCEPT !.state = "TaskForm.task_type"]
            /\ reply' = Reply("task_add_name", "choose type", FALSE)
    /\ UNCHANGED <<user, tasks, now, jobs, reminder_time, fired, notified>>
    /\ UNCHANGED job_vars
    /\ UNCHANGED atomic_vars
    /\ UNCHANGED await_vars

\* Faulty variant of task_add_type: the callback is taken in whatever state.
task_add_type_any_state(task_type) ==
    /\ form' = [state |-> "TaskForm.reminder_time", task_type |-> task_type]
    /\ reply' = Reply("task_add_type", "enter time", FALSE)
    /\ UNCHANGED <<user, tasks, now, jobs, reminder_time, fired, notified>>
    /\ UNCHANGED job_vars
    /\ UNCHANGED atomic_vars
    /\ UNCHANGED await_vars

\* callback ttype:<type> at the type step: the form waits for the reminder
\* time.
task_add_type(task_type) ==
    /\ form.state = "TaskForm.task_type"
    /\ form' = [state |-> "TaskForm.reminder_time", task_type |-> task_type]
    /\ reply' = Reply("task_add_type", "enter time", FALSE)
    /\ UNCHANGED <<user, tasks, now, jobs, reminder_time, fired, notified>>
    /\ UNCHANGED job_vars
    /\ UNCHANGED atomic_vars
    /\ UNCHANGED await_vars

\* callback skip_rem at the reminder step
task_skip_reminder ==
    /\ form.state = "TaskForm.reminder_time"
    /\ Len(tasks) < MaxTasks
    /\ tasks' = Append(tasks, NewTask(form.task_type, Today))
    /\ reminder_time' = Append(reminder_time, None)
    /\ form' = NoForm
    /\ reply' = Reply("task_skip_reminder", "task added", FALSE)
    /\ UNCHANGED <<user, now, jobs, fired, notified>>
    /\ UNCHANGED job_vars
    /\ UNCHANGED atomic_vars
    /\ UNCHANGED await_vars

\* A message at the reminder step.  Answers: "Действие отменено." (menu
\* button), "Неверный формат!", "Задача добавлена!".
task_add_reminder(text) ==
    /\ form.state = "TaskForm.reminder_time"
    /\ IF text \in MENU_BUTTONS
       THEN /\ form' = NoForm
            /\ reply' = Reply("task_add_reminder", "cancelled", FALSE)
            /\ UNCHANGED <<tasks, reminder_time, jobs>>
       ELSE IF parse_time(text) = None
       THEN /\ reply' = Reply("task_add_reminder", "bad format", FALSE)
            /\ UNCHANGED <<form, tasks, reminder_time, jobs>>
       ELSE /\ Len(tasks) < MaxTasks
            /\ tasks' = Append(tasks, NewTask(form.task_type, Today))
            /\ reminder_time' =
                  Append(reminder_time,
                         rem_str(parse_time(text)[1], parse_time(text)[2]))
            /\ form' = NoForm
            /\ jobs' = IF scheduler_handle /\ run_time(parse_time(text)) > now
                       THEN add_job(jobs, Len(tasks) + 1, run_time(parse_time(text)))
                       ELSE jobs
            /\ reply' = Reply("task_add_reminder", "task added", FALSE)
    /\ UNCHANGED <<user, now, fired, notified>>
    /\ UNCHANGED job_vars
    /\ UNCHANGED atomic_vars
    /\ UNCHANGED await_vars

\* The command /cancel, registered before the forms' handlers: answers
\* "Нечего отменять." outside a form and "Действие отменено." inside one.
cmd_cancel ==
    /\ form' = NoForm
    /\ reply' = IF form.state = "none"
                THEN Reply("cmd_cancel", "nothing to cancel", FALSE)
                ELSE Reply("cmd_cancel", "cancelled", FALSE)
    /\ UNCHANGED <<user, tasks, now, jobs, reminder_time, fired, notified>>
    /\ UNCHANGED job_vars
    /\ UNCHANGED atomic_vars
    /\ UNCHANGED await_vars

\* Faulty variant of tdone: a deleted row is taken for a row.
tdone_sees_deleted(handler, task_id) ==
    /\ IF task_id \notin 1..Len(tasks) \/ tasks[task_id].completed
       THEN /\ reply' = Reply(handler, "done already or not found", FALSE)
            /\ UNCHANGED <<user, tasks>>
       ELSE /\ tasks' = complete_task(tasks, task_id)
            /\ user' = grant(user, tasks[task_id].task_type)
            /\ reply' = Reply(handler, "done", FALSE)
    /\ UNCHANGED <<form, now, jobs, reminder_time, fired, notified>>
    /\ UNCHANGED job_vars
    /\ UNCHANGED atomic_vars
    /\ UNCHANGED await_vars

\* callback tdone:<id> (handler task_done) or remdone:<id> (reminder_done),
\* the same statements, with the answer: "Задача уже выполнена или не
\* найдена!" or "Уже выполнено!" on the early return, "Выполнено!" after
\* the two writes.
tdone(handler, task_id) ==
    /\ IF ~TaskExists(tasks, task_id) \/ tasks[task_id].completed
       THEN /\ reply' = Reply(handler, "done already or not found", FALSE)
            /\ UNCHANGED <<user, tasks>>
       ELSE /\ tasks' = complete_task(tasks, task_id)
            /\ user' = grant(user, tasks[task_id].task_type)
            /\ reply' = Reply(handler, "done", FALSE)
    /\ UNCHANGED <<form, now, jobs, reminder_time, fired, notified>>
    /\ UNCHANGED job_vars
    /\ UNCHANGED atomic_vars
    /\ UNCHANGED await_vars

\* callback tdel:<id> with its answer: "Задача удалена" when get_task finds
\* the row, the empty cb.answer() alone when it does not.
tdel(task_id) ==
    /\ IF TaskExists(tasks, task_id)
       THEN /\ tasks' = delete_task(tasks, task_id)
            /\ reply' = Reply("task_delete", "deleted", FALSE)
       ELSE /\ reply' = Reply("task_delete", "", FALSE)
            /\ UNCHANGED tasks
    /\ UNCHANGED <<user, form, now, jobs, reminder_time, fired, notified>>
    /\ UNCHANGED job_vars
    /\ UNCHANGED atomic_vars
    /\ UNCHANGED await_vars

\* callback cancel_fsm (the button under a form's question), in whatever state
cancel_fsm_cb ==
    /\ form' = NoForm
    /\ reply' = Reply("cancel_fsm_cb", "cancelled", FALSE)
    /\ UNCHANGED <<user, tasks, now, jobs, reminder_time, fired, notified>>
    /\ UNCHANGED job_vars
    /\ UNCHANGED atomic_vars
    /\ UNCHANGED await_vars

\* callback radd, in whatever state: the form waits for the reward's name.
reward_add_start ==
    /\ form' = [form EXCEPT !.state = "RewardForm.name"]
    /\ reply' = Reply("reward_add_start", "enter name", FALSE)
    /\ UNCHANGED <<user, tasks, rewards, now, jobs, reminder_time, fired, notified>>
    /\ UNCHANGED job_vars
    /\ UNCHANGED <<is_sun, calls, started, grants, debits, ledger>>
    /\ UNCHANGED atomic_vars

\* A message at the name step of the reward form: the form waits for the
\* cost.
reward_add_name(text) ==
    /\ form.state = "RewardForm.name"
    /\ IF text \in MENU_BUTTONS
       THEN /\ form' = NoForm
            /\ reply' = Reply("reward_add_name", "cancelled", FALSE)
       ELSE /\ form' = [form EXCEPT !.state = "RewardForm.cost"]
            /\ reply' = Reply("reward_add_name", "enter cost", FALSE)
    /\ UNCHANGED <<user, tasks, rewards, now, jobs, reminder_time, fired, notified>>
    /\ UNCHANGED job_vars
    /\ UNCHANGED <<is_sun, calls, started, grants, debits, ledger>>
    /\ UNCHANGED atomic_vars

\* A message at the cost step.  Answers: "Действие отменено." (menu button),
\* "Введите положительное число!", "Награда добавлена!".
reward_add_cost(text) ==
    /\ form.state = "RewardForm.cost"
    /\ IF text \in MENU_BUTTONS
       THEN /\ form' = NoForm
            /\ reply' = Reply("reward_add_cost", "cancelled", FALSE)
            /\ UNCHANGED rewards
       ELSE IF parse_cost(text) = None
       THEN /\ reply' = Reply("reward_add_cost", "positive number", FALSE)
            /\ UNCHANGED <<form, rewards>>
       ELSE /\ Len(rewards) < MaxRewards
            /\ rewards' = Append(rewards, NewReward(parse_cost(text)[1]))
            /\ form' = NoForm
            /\ reply' = Reply("reward_add_cost", "reward added", FALSE)
    /\ UNCHANGED <<user, tasks, now, jobs, reminder_time, fired, notified>>
    /\ UNCHANGED job_vars
    /\ UNCHANGED <<is_sun, calls, started, grants, debits, ledger>>
    /\ UNCHANGED atomic_vars

\* Time passes to a later instant.  The scheduler runs a job when its time
\* has come, so no job that is due is left behind.
tick ==
    /\ \A k \in 1..Len(jobs) : jobs[k].at > now
    /\ \E t \in Instants :
          /\ t > now
          /\ \A u \in Instants : u > now => t <= u
          /\ now' = t
    /\ reply' = NoReply
    /\ UNCHANGED <<user, tasks, form, jobs, reminder_time, fired, notified>>
    /\ UNCHANGED job_vars
    /\ UNCHANGED atomic_vars
    /\ UNCHANGED await_vars

\* Faulty variant of send_reminder: the task is not looked at again.
send_reminder_unchecked(k) ==
    /\ k \in 1..Len(jobs)
    /\ jobs[k].at <= now
    /\ jobs' = SubSeq(jobs, 1, k - 1) \o SubSeq(jobs, k + 1, Len(jobs))
    /\ fired' = fired \cup {jobs[k].id}
    /\ notified' = notified \cup {jobs[k].id}
    /\ reply' = NoReply
    /\ UNCHANGED <<user, tasks, form, now, reminder_time>>
    /\ UNCHANGED job_vars
    /\ UNCHANGED atomic_vars
    /\ UNCHANGED await_vars

\* The scheduler runs job k, which is due: _send_reminder(bot, db, uid, id).
\* "if not task or task["completed"]: return" sends nothing.
send_reminder(k) ==
    /\ k \in 1..Len(jobs)
    /\ jobs[k].at <= now
    /\ jobs' = SubSeq(jobs, 1, k - 1) \o SubSeq(jobs, k + 1, Len(jobs))
    /\ fired' = fired \cup {jobs[k].id}
    /\ notified' = IF TaskExists(tasks, jobs[k].id) /\ ~tasks[jobs[k].id].completed
                   THEN notified \cup {jobs[k].id} ELSE notified
    /\ reply' = NoReply
    /\ UNCHANGED <<user, tasks, form, now, reminder_time>>
    /\ UNCHANGED job_vars
    /\ UNCHANGED atomic_vars
    /\ UNCHANGED await_vars

\* restore_reminders on the scheduler as it is
restore_reminders ==
    /\ jobs' = restore_loop(jobs, tasks, reminder_time,
                            get_tasks_by_date(tasks, Today), now)
    /\ reply' = NoReply
    /\ UNCHANGED <<user, tasks, form, now, reminder_time, fired, notified>>
    /\ UNCHANGED job_vars
    /\ UNCHANGED atomic_vars
    /\ UNCHANGED await_vars

\* The process is started again: the job store and the FSM storage are in
\* memory and start empty, then main() runs restore_reminders.
restart ==
    /\ jobs' = restore_loop(<<>>, tasks, reminder_time,
                            get_tasks_by_date(tasks, Today), now)
    /\ form' = NoForm
    /\ reply' = NoReply
    /\ UNCHANGED <<user, tasks, now, reminder_time, fired, notified>>
    /\ UNCHANGED job_vars
    /\ UNCHANGED atomic_vars
    /\ UNCHANGED await_vars

\* After main() in the morning, with the tables empty or holding a task added
\* yesterday with a reminder at 16:00.
InitForms ==
    /\ ran = FALSE
    /\ user = NewUser
    /\ \E old \in BOOLEAN :
          /\ tasks = IF old THEN <<NewTask("important", Yesterday)>> ELSE <<>>
          /\ reminder_time = IF old THEN <<rem_str(16, 0)>> ELSE <<>>
    /\ out = NoOut
    /\ nullified = 0
    /\ bought = 0
    /\ rewards = <<>>
    /\ is_sun = FALSE
    /\ calls = <<>>
    /\ started = 0
    /\ grants = [i \in 1..MaxTasks |-> 0]
    /\ debits = [i \in 1..MaxRewards |-> 0]
    /\ ledger = [points |-> 0, xp |-> 0, settled |-> FALSE]
    /\ reply = NoReply
    /\ form = NoForm
    /\ now = Morning
    /\ jobs = <<>>
    /\ fired = {}
    /\ notified = {}
    /\ InitUsers

NextForms ==
    \/ task_add_start
    \/ \E text \in {NameText, MenuText} : task_add_name(text)
    \/ \E t \in FormTypes : task_add_type(t)
    \/ task_skip_reminder
    \/ \E text \in TimeTexts : task_add_reminder(text)
    \/ reward_add_start
    \/ \E text \in {NameText, MenuText} : reward_add_name(text)
    \/ \E text \in CostTexts : reward_add_cost(text)
    \/ cmd_cancel
    \/ \E i \in 1..MaxTasks : task_done(i)
    \/ \E i \in 1..MaxTasks : task_delete(i)
    \/ tick
    \/ \E k \in 1..MaxTasks : send_reminder(k)
    \/ restore_reminders
    \/ restart

SpecForms == InitForms /\ [][NextForms]_vars

\* The same day with the callbacks as whole handlers, for ids that exist, that
\* existed and that never did.
NextNotFound ==
    \/ task_add_start
    \/ task_add_name(NameText)
    \/ \E t \in FormTypes : task_add_type(t)
    \/ \E text \in {<<"9", ":", "0", "5">>, <<"1", "6", " ", "0", "0">>} :
          task_add_reminder(text)
    \/ reward_add_start
    \/ reward_add_name(NameText)
    \/ \E text \in {<<"2", "0">>} : reward_add_cost(text)
    \/ \E h \in {"task_done", "reminder_done"}, i \in 1..MaxTasks + 1 : tdone(h, i)
    \/ \E i \in 1..MaxTasks + 1 : tdel(i)
    \/ \E rid \in 1..MaxRewards + 1 : reward_claim(rid)
    \/ \E rid \in 1..MaxRewards : reward_del(rid)
    \/ tick
    \/ \E k \in 1..MaxTasks : send_reminder(k)
    \/ restart

SpecNotFound == InitForms /\ [][NextNotFound]_vars

\* ------------------------------------------------------------------ recurring jobs
\* The accounts, the whitelist and the jobs that walk the list of users.  What
\* a job does for one user is the handler-level specification's matter; here
\* it is one step that is done or raises.
rem_vars == <<reply, form, now, jobs, reminder_time, fired, notified>>

\* WhitelistMiddleware: the admin and the whitelisted accounts reach a handler
Admitted(uid) == uid = Admin \/ uid \in whitelist

\* get_all_user_ids: SELECT user_id FROM whitelist
RECURSIVE get_all_user_ids(_)
get_all_user_ids(wl) ==
    IF wl = {} THEN <<>>
    ELSE LET least == CHOOSE u \in wl : \A v \in wl : u <= v
         IN  <<least>> \o get_all_user_ids(wl \ {least})

Jobs == {"morning", "evening", "restore"}

\* Faulty variant of catches: the loop body has no try of its own.
catches_job_only(job, site) ==
    IF job \in {"morning", "evening", "reminder"} THEN "job" ELSE "none"

\* The innermost try ... except Exception around a call: that of the loop
\* body ("user"), that of the job ("job"), or none.  morning_alarm_job and
\* evening_summary_job have both, _send_reminder has one around its body,
\* restore_reminders has none.
catches(job, site) ==
    IF job \in {"morning", "evening"}
    THEN (IF site = "user" THEN "user" ELSE "job")
    ELSE IF job = "reminder" THEN "job" ELSE "none"

\* Faulty variant of works: the nudge does not look at the list of today.
works_nudges_all(job, uid) ==
    CASE job = "morning" -> TRUE
      [] job = "evening" -> uid \in tasked /\ uid \in records
      [] OTHER           -> uid \in tasked

\* What the loop body does for uid when nothing raises: the nudge is sent when
\* the list of today is empty, _process_evening goes on when there are tasks
\* and a user row, the restore pass looks at the tasks of today.
works(job, uid) ==
    CASE job = "morning" -> uid \notin tasked
      [] job = "evening" -> uid \in tasked /\ uid \in records
      [] OTHER           -> uid \in tasked

\* callback uadd, by the admin (anyone else is answered "Нет доступа!" and
\* stays where they are), in whatever state: the form waits for the id.
users_add_start ==
    /\ form' = [form EXCEPT !.state = "AddUserForm.user_id"]
    /\ reply' = Reply("users_add_start", "enter id", FALSE)
    /\ UNCHANGED <<now, jobs, reminder_time, fired, notified>>
    /\ UNCHANGED <<user, tasks, job_vars, atomic_vars, await_vars>>

\* The text of a user id.
IdText(uid) == <<Digits[uid + 1]>>

\* A message at the id step, by the admin (the only account that can be at
\* this step): the menu test, then uid = int(msg.text.strip()), then
\* add_to_whitelist(uid) and create_user(uid).  int() is taken on runs of
\* digits and on texts with no digit in them.
users_add_id(text) ==
    /\ form.state = "AddUserForm.user_id"
    /\ IF text \in MENU_BUTTONS
       THEN /\ form' = NoForm
            /\ reply' = Reply("users_add_id", "cancelled", FALSE)
            /\ UNCHANGED <<whitelist, records>>
       ELSE IF strip(text) = <<>> \/ ~AllDigits(strip(text))
       THEN /\ reply' = Reply("users_add_id", "numeric id", FALSE)
            /\ UNCHANGED <<form, whitelist, records>>
       ELSE /\ ToInt(strip(text)) \in Uids
            /\ whitelist' = whitelist \cup {ToInt(strip(text))}
            /\ records' = records \cup {ToInt(strip(text))}
            /\ form' = NoForm
            /\ reply' = Reply("users_add_id", "user added", FALSE)
    /\ UNCHANGED <<now, jobs, reminder_time, fired, notified>>
    /\ UNCHANGED <<user, tasks, tasked, run, served, escaped, rate, ideas>>
    /\ UNCHANGED <<atomic_vars, await_vars>>

\* udel:<uid>: remove_from_whitelist(uid), by the admin
users_del(uid) ==
    /\ uid \in whitelist
    /\ whitelist' = whitelist \ {uid}
    /\ UNCHANGED <<user, tasks, records, tasked, run, served, escaped>>
    /\ UNCHANGED <<atomic_vars, await_vars, rem_vars, rate, ideas>>

\* /start: create_user(uid)
cmd_start(uid) ==
    /\ Admitted(uid)
    /\ records' = records \cup {uid}
    /\ UNCHANGED <<user, tasks, whitelist, tasked, run, served, escaped>>
    /\ UNCHANGED <<atomic_vars, await_vars, rem_vars, rate, ideas>>

\* The task form of account uid ends: add_task(uid, ..., today)
task_added(uid) ==
    /\ Admitted(uid)
    /\ tasked' = tasked \cup {uid}
    /\ UNCHANGED <<user, tasks, whitelist, records, run, served, escaped>>
    /\ UNCHANGED <<atomic_vars, await_vars, rem_vars, rate, ideas>>

\* A trigger fires, or main() runs after a restart and reaches the restore
\* pass: user_ids = await db.get_all_user_ids(), which raises or returns.
job_start(job, raises) ==
    /\ ~run.running
    /\ whitelist' = IF job = "restore" THEN whitelist \cup {Admin} ELSE whitelist
    /\ records' = IF job = "restore" THEN records \cup {Admin} ELSE records
    /\ served' = {}
    /\ IF raises
       THEN /\ run' = [NoRun EXCEPT !.job = job]
            /\ escaped' = IF catches(job, "list") = "none"
                          THEN escaped \cup {job} ELSE escaped
       ELSE /\ run' = [NoRun EXCEPT !.job = job,
                                    !.listed = get_all_user_ids(whitelist'),
                                    !.queue = get_all_user_ids(whitelist'),
                                    !.running = whitelist' # {}]
            /\ UNCHANGED escaped
    /\ UNCHANGED <<user, tasks, tasked>>
    /\ UNCHANGED <<atomic_vars, await_vars, rem_vars, rate, ideas>>

\* The loop body for the next user id of the list, which is done or raises.
job_step(raises) ==
    /\ run.running
    /\ LET uid == Head(run.queue)
           by  == catches(run.job, "user")
       IN  IF ~raises
           THEN /\ run' = [run EXCEPT !.queue = Tail(@),
                                      !.visited = @ \cup {uid},
                                      !.running = Tail(run.queue) # <<>>]
                /\ served' = IF works(run.job, uid) THEN served \cup {uid} ELSE served
                /\ UNCHANGED escaped
           ELSE IF by = "user"
           THEN /\ run' = [run EXCEPT !.queue = Tail(@),
                                      !.visited = @ \cup {uid},
                                      !.raised = @ \cup {uid},
                                      !.running = Tail(run.queue) # <<>>]
                /\ UNCHANGED <<served, escaped>>
           ELSE /\ run' = [run EXCEPT !.queue = <<>>,
                                      !.visited = @ \cup {uid},
                                      !.raised = @ \cup {uid},
                                      !.running = FALSE]
                /\ escaped' = IF by = "none" THEN escaped \cup {run.job} ELSE escaped
                /\ UNCHANGED served
    /\ UNCHANGED <<user, tasks, whitelist, records, tasked>>
    /\ UNCHANGED <<atomic_vars, await_vars, rem_vars, rate, ideas>>

\* A reminder job of a task of uid runs: _send_reminder, whose get_task or
\* send_message raises or does not.
reminder_fires(uid, raises) ==
    /\ ~run.running
    /\ uid \in tasked
    /\ run' = [NoRun EXCEPT !.job = "reminder", !.listed = <<uid>>,
                            !.visited = {uid},
                            !.raised = IF raises THEN {uid} ELSE {}]
    /\ served' = IF raises THEN {} ELSE {uid}
    /\ escaped' = IF raises /\ catches("reminder", "body") = "none"
                  THEN escaped \cup {"reminder"} ELSE escaped
    /\ UNCHANGED <<user, tasks, whitelist, records, tasked>>
    /\ UNCHANGED <<atomic_vars, await_vars, rem_vars, rate, ideas>>

InitJobs == Init /\ user = NewUser

NextJobs ==
    \/ users_add_start
    \/ \E uid \in Uids : users_add_id(IdText(uid))
    \/ \E uid \in Uids : users_del(uid)
    \/ \E uid \in Uids : cmd_start(uid)
    \/ \E uid \in Uids : task_added(uid)
    \/ \E job \in Jobs, raises \in BOOLEAN : job_start(job, raises)
    \/ \E raises \in BOOLEAN : job_step(raises)
    \/ \E uid \in Uids, raises \in BOOLEAN : reminder_fires(uid, raises)

SpecJobs == InitJobs /\ [][NextJobs]_vars

\* ------------------------------------------------------------------ dispatch
\* A message goes to the first registered handler whose filters match it.

\* callback icatadd, in whatever state: the form waits for the category's name.
cat_add_start ==
    /\ form' = [form EXCEPT !.state = "CategoryForm.name"]
    /\ reply' = Reply("cat_add_start", "enter name", FALSE)
    /\ UNCHANGED <<now, jobs, reminder_time, fired, notified>>
    /\ UNCHANGED <<user, tasks, job_vars, atomic_vars, await_vars>>

\* A message at the name step of the category form: the menu test, then
\* name = msg.text.strip(), "if not name", add_category.
cat_add_name(text) ==
    /\ form.state = "CategoryForm.name"
    /\ IF text \in MENU_BUTTONS
       THEN /\ form' = NoForm
            /\ reply' = Reply("cat_add_name", "cancelled", FALSE)
            /\ UNCHANGED ideas
       ELSE IF strip(text) = <<>>
       THEN /\ reply' = Reply("cat_add_name", "empty name", FALSE)
            /\ UNCHANGED <<form, ideas>>
       ELSE /\ ideas.categories < MaxIdeas
            /\ ideas' = [ideas EXCEPT !.categories = @ + 1]
            /\ form' = NoForm
            /\ reply' = Reply("cat_add_name", "category added", FALSE)
    /\ UNCHANGED <<now, jobs, reminder_time, fired, notified>>
    /\ UNCHANGED <<whitelist, records, tasked, run, served, escaped, rate>>
    /\ UNCHANGED <<user, tasks, atomic_vars, await_vars>>

\* callback iadd:<cat_id>, in whatever state: the form waits for the idea's
\* title.
idea_add_start ==
    /\ form' = [form EXCEPT !.state = "IdeaForm.title"]
    /\ reply' = Reply("idea_add_start", "enter title", FALSE)
    /\ UNCHANGED <<now, jobs, reminder_time, fired, notified>>
    /\ UNCHANGED <<user, tasks, job_vars, atomic_vars, await_vars>>

\* A message at the title step of the idea form: the menu test, then
\* title = msg.text.strip(), "if not title", add_idea.
idea_add_title(text) ==
    /\ form.state = "IdeaForm.title"
    /\ IF text \in MENU_BUTTONS
       THEN /\ form' = NoForm
            /\ reply' = Reply("idea_add_title", "cancelled", FALSE)
            /\ UNCHANGED ideas
       ELSE IF strip(text) = <<>>
       THEN /\ reply' = Reply("idea_add_title", "empty title", FALSE)
            /\ UNCHANGED <<form, ideas>>
       ELSE /\ ideas.ideas < MaxIdeas
            /\ ideas' = [ideas EXCEPT !.ideas = @ + 1]
            /\ form' = NoForm
            /\ reply' = Reply("idea_add_title", "idea added", FALSE)
    /\ UNCHANGED <<now, jobs, reminder_time, fired, notified>>
    /\ UNCHANGED <<whitelist, records, tasked, run, served, escaped, rate>>
    /\ UNCHANGED <<user, tasks, atomic_vars, await_vars>>

\* The messages "Профиль", "Задачи", "Магазин", "Юзеры", "Идеи": the handler
\* reads the store (the account has its users row) and answers with a screen.
show_menu(handler) ==
    /\ reply' = Reply(handler, "screen", FALSE)
    /\ UNCHANGED <<form, now, jobs, reminder_time, fired, notified>>
    /\ UNCHANGED <<user, tasks, job_vars, atomic_vars, await_vars>>

\* @router.message(...), in the order of registration: the handler, the text
\* it is filtered on (None: any text) and the state it is filtered on ("any":
\* no state filter).
MessageHandlers ==
    << [name |-> "cmd_cancel",        text |-> <<"/cancel">>,  state |-> "any"],
       [name |-> "cmd_test_reminder", text |-> <<"/testrem">>, state |-> "any"],
       [name |-> "cmd_start",         text |-> <<"/start">>,   state |-> "any"],
       [name |-> "show_profile",      text |-> <<"Profile">>,  state |-> "any"],
       [name |-> "show_tasks",        text |-> <<"Tasks">>,    state |-> "any"],
       [name |-> "task_add_name",     text |-> None, state |-> "TaskForm.name"],
       [name |-> "task_add_reminder", text |-> None,
                                      state |-> "TaskForm.reminder_time"],
       [name |-> "show_shop",         text |-> <<"Shop">>,     state |-> "any"],
       [name |-> "show_rewards",      text |-> <<"Rewards">>,  state |-> "any"],
       [name |-> "reward_add_name",   text |-> None, state |-> "RewardForm.name"],
       [name |-> "reward_add_cost",   text |-> None, state |-> "RewardForm.cost"],
       [name |-> "show_users",        text |-> <<"Users">>,    state |-> "any"],
       [name |-> "users_add_id",      text |-> None,
                                      state |-> "AddUserForm.user_id"],
       [name |-> "show_ideas_menu",   text |-> <<"Ideas">>,    state |-> "any"],
       [name |-> "cat_add_name",      text |-> None, state |-> "CategoryForm.name"],
       [name |-> "idea_add_title",    text |-> None, state |-> "IdeaForm.title"] >>

\* The handler a message with this text is given to in this state: the first
\* one registered whose filters all pass, "none" when there is none.
handler_of(text, state) ==
    LET passing == { i \in 1..Len(MessageHandlers) :
                       /\ MessageHandlers[i].text \in {None, text}
                       /\ MessageHandlers[i].state \in {"any", state} }
    IN  IF passing = {} THEN "none"
        ELSE MessageHandlers[CHOOSE i \in passing : \A j \in passing : i <= j].name

\* A text message of the account arrives.
on_message(text) ==
    LET h == handler_of(text, form.state)
    IN  CASE h = "cmd_cancel"        -> cmd_cancel
          [] h = "show_rewards"      -> show_rewards
          [] h \in {"show_profile", "show_tasks", "show_shop", "show_users",
                    "show_ideas_menu"} -> show_menu(h)
          [] h = "task_add_name"     -> task_add_name(text)
          [] h = "task_add_reminder" -> task_add_reminder(text)
          [] h = "reward_add_name"   -> reward_add_name(text)
          [] h = "reward_add_cost"   -> reward_add_cost(text)
          [] h = "users_add_id"      -> users_add_id(text)
          [] h = "cat_add_name"      -> cat_add_name(text)
          [] h = "idea_add_title"    -> idea_add_title(text)
          [] OTHER                   -> FALSE

\* The texts sent: the six buttons, /cancel, a name, a time, a cost, an id.
MessageTexts ==
    MENU_BUTTONS \cup { <<"/cancel">>, NameText, <<"9", ":", "0", "5">>,
                        <<"2", "0">>, IdText(MaxUsers) }

NextMenu ==
    \/ task_add_start
    \/ \E t \in FormTypes : task_add_type(t)
    \/ task_skip_reminder
    \/ reward_add_start
    \/ users_add_start
    \/ cat_add_start
    \/ idea_add_start
    \/ cancel_fsm_cb
    \/ \E text \in MessageTexts : on_message(text)

SpecMenu == InitForms /\ [][NextMenu]_vars

\* ------------------------------------------------------------------ triggers
\* CronTrigger(hour=..., minute=...) at minute t of the day: the hour is one
\* of the hours given and the minute one of the minutes given.
cron_matches(hours, minutes, t) == (t \div 60) \in hours /\ (t % 60) \in minutes

\* Five minutes pass on the scheduler's clock, and a recurring job whose
\* trigger matches the new time is started:
\*   morning_alarm_job    CronTrigger(hour="7-12", minute="0,30")
\*   evening_summary_job  CronTrigger(hour=21, minute=0)
cron_tick ==
    /\ ~run.running
    /\ now' = (now + 5) % 1440
    /\ LET job == IF cron_matches(7..12, {0, 30}, now') THEN "morning"
                  ELSE IF cron_matches({21}, {0}, now') THEN "evening"
                  ELSE "none"
       IN  run' = IF job = "none" THEN NoRun
                  ELSE [NoRun EXCEPT !.job = job,
                                     !.listed = get_all_user_ids(whitelist),
                                     !.queue = get_all_user_ids(whitelist),
                                     !.running = whitelist # {}]
    /\ served' = {}
    /\ UNCHANGED <<user, tasks, whitelist, records, tasked, escaped, rate, ideas>>
    /\ UNCHANGED <<reply, form, jobs, reminder_time, fired, notified>>
    /\ UNCHANGED <<atomic_vars, await_vars>>

NextClock ==
    \/ cron_tick
    \/ \E raises \in BOOLEAN : job_step(raises)

SpecClock == InitJobs /\ [][NextClock]_vars

\* ------------------------------------------------------------------ weekly rate
\* Dates as day numbers: isoformat() strings of dates compare as the dates do.
\* date.today() on the day modelled:
AsOf == 10

\* get_week_completion_rate: week_ago = today - timedelta(days=7);
\* COUNT(*) and SUM(completed = 1) over the rows with
\* created_date >= week_ago AND created_date <= today.  The value returned
\* is done / total * 100 if total > 0 and 0.0 otherwise.
get_week_completion_rate(ts, today) ==
    LET rows == {i \in 1..Len(ts) :
                    /\ ~ts[i].deleted
                    /\ ts[i].created_date >= today - 7
                    /\ ts[i].created_date <= today}
    IN  [asked |-> TRUE,
         done  |-> Cardinality({i \in rows : ts[i].completed}),
         total |-> Cardinality(rows)]

\* The rewards screen or a claim asks for the rate.
week_rate ==
    /\ ~rate.asked
    /\ rate' = get_week_completion_rate(tasks, AsOf)
    /\ UNCHANGED <<user, tasks, whitelist, records, tasked, run, served, escaped, ideas>>
    /\ UNCHANGED <<atomic_vars, await_vars, rem_vars>>

\* Tasks tables of up to MaxTasks rows created today, six, seven or eight
\* days ago, completed or not.
InitWeek ==
    /\ ran = FALSE
    /\ user = NewUser
    /\ \E n \in 0..MaxTasks :
          tasks \in [1..n -> { [NewTask("focus", d) EXCEPT !.completed = c] :
                                 d \in {AsOf, AsOf - 6, AsOf - 7, AsOf - 8},
                                 c \in BOOLEAN }]
    /\ out = NoOut
    /\ nullified = 0
    /\ bought = 0
    /\ rewards = <<>>
    /\ is_sun = TRUE
    /\ calls = <<>>
    /\ started = 0
    /\ grants = [i \in 1..MaxTasks |-> 0]
    /\ debits = [i \in 1..MaxRewards |-> 0]
    /\ ledger = [points |-> 0, xp |-> 0, settled |-> FALSE]
    /\ InitIdle

SpecWeek == InitWeek /\ [][week_rate]_vars

\* ------------------------------------------------------------------ claims
\* The spec's penalty table and the sets its settlement algorithm names, written
\* over sets of ids rather than as the code's loop.
HpPenaltyOf(task_type) ==
    IF task_type = "focus" THEN 20 ELSE IF task_type = "important" THEN 10 ELSE 0

PtsPenaltyOf(task_type) ==
    IF task_type = "focus" THEN 5 ELSE IF task_type = "important" THEN 3 ELSE 2

DayIds(ts) ==
    {i \in 1..Len(ts) : ~ts[i].deleted /\ ts[i].created_date = Today}

FailedIds(ts) ==
    {i \in DayIds(ts) : ~ts[i].completed /\ ~ts[i].penalized}

ShieldableIds(ts) ==
    {i \in FailedIds(ts) : HpPenaltyOf(ts[i].task_type) > 0}

MinOf(S) == CHOOSE i \in S : \A j \in S : i <= j

RECURSIVE SumHp(_, _)
SumHp(ts, S) ==
    IF S = {} THEN 0
    ELSE LET i == MinOf(S) IN HpPenaltyOf(ts[i].task_type) + SumHp(ts, S \ {i})

RECURSIVE SumPts(_, _)
SumPts(ts, S) ==
    IF S = {} THEN 0
    ELSE LET i == MinOf(S) IN PtsPenaltyOf(ts[i].task_type) + SumPts(ts, S \ {i})

ExpectedHpLoss(u, ts) ==
    IF u.shield_active /\ ShieldableIds(ts) # {}
    THEN SumHp(ts, FailedIds(ts) \ {MinOf(ShieldableIds(ts))})
    ELSE SumHp(ts, FailedIds(ts))

ExpectedPtsLoss(ts) == SumPts(ts, FailedIds(ts))

Monus(a, b) == IF a >= b THEN a - b ELSE 0

\* A settlement run of a day that has tasks: the step that sends a summary.
Settles == out'.sent /\ DayIds(tasks) # {} /\ process_evening

\* C1: a settlement run that starts with the shield active and has a failed
\* task with an HP penalty > 0 leaves shield_active false.
C1_ShieldClearedWhenUsed ==
    [][Settles /\ user.shield_active /\ ShieldableIds(tasks) # {}
         => ~user'.shield_active]_vars

\* C2: in a run with the shield active, exactly one HP penalty is set to 0, that
\* of the first failed task (in id order) with an HP penalty > 0; every other HP
\* penalty and every points penalty is added in full.  Shield on, hp 100, two
\* failed focus tasks: hp 80 and the shield off.
C2_ShieldNullifiesFirstOnly ==
    [][Settles /\ user.shield_active
         => /\ out'.hp_loss = ExpectedHpLoss(user, tasks)
            /\ out'.pts_loss = SumPts(tasks, FailedIds(tasks))
            /\ out'.nullified = (IF ShieldableIds(tasks) # {} THEN 1 ELSE 0)
            /\ (/\ user.hp = 100
                /\ Cardinality(FailedIds(tasks)) = 2
                /\ \A i \in FailedIds(tasks) : tasks[i].task_type = "focus")
               => user'.hp = 80 /\ ~user'.shield_active]_vars

C2_Witness ==
    /\ out.sent /\ out.nullified = 1 /\ Len(out.failed) = 2
    /\ out.hp_loss = 20 /\ out.pts_loss = 10
    /\ user.hp = 80 /\ ~user.shield_active

\* C3: the shield never nullifies more HP penalties than shields were bought
\* while no shield was active.
C3_ShieldSingleUse == nullified <= bought

\* C4: a settlement of a day with tasks writes hp = max(0, hp - totalHpLoss) and
\* points = max(0, points - totalPointsLoss), the totals being those of the
\* failed tasks (not completed, not penalized) after the shield adjustment.
C4_SettlementArithmetic ==
    [][Settles
         => /\ user'.hp = Monus(user.hp, ExpectedHpLoss(user, tasks))
            /\ user'.points = Monus(user.points, ExpectedPtsLoss(tasks))]_vars

C4_Witness ==
    /\ out.sent /\ out.done = 1 /\ out.total = 2 /\ Len(out.failed) = 1
    /\ out.hp_loss = 20 /\ out.pts_loss = 5
    /\ user.hp = 0 /\ user.points = 0

\* C5: a second settlement of the same day, with nothing done in between,
\* applies no further HP or points penalty.
C5_NoSecondPenalty ==
    [][Settles /\ out.sent
         => /\ user'.hp = user.hp
            /\ user'.points = user.points
            /\ out'.hp_loss = 0 /\ out'.pts_loss = 0]_vars

C5_Witness ==
    /\ out.sent /\ out.again
    /\ \E i \in DayIds(tasks) : tasks[i].penalized /\ ~tasks[i].completed
    /\ user.hp < 100

\* C6: a second settlement of the same day leaves the whole user row as the
\* first left it.
C6_SecondRunNoOp ==
    [][Settles /\ out.sent => user' = user]_vars

\* C7: no task is both completed and penalized.
C7_CompletedXorPenalized ==
    \A i \in 1..Len(tasks) : ~(tasks[i].completed /\ tasks[i].penalized)

\* C8: with the settlement firing every day, every task is eventually completed,
\* deleted or penalized.
C8_EventuallyPenalized ==
    \A i \in 1..MaxTasks :
        [](TaskExists(tasks, i)
             => <>(\/ ~TaskExists(tasks, i)
                   \/ tasks[i].completed
                   \/ tasks[i].penalized))

\* C9: level >= 1 and 0 <= xp < level * 100 in every reachable state.
C9_XpBelowThreshold ==
    /\ user.level >= 1
    /\ 0 <= user.xp
    /\ user.xp < user.level * 100

C9_Witness ==
    /\ user.level = 2 /\ user.xp = 0 /\ user.points = 40
    /\ \A i \in 1..Len(tasks) : tasks[i].completed

\* The step in which callback tdone:<i> or remdone:<i> completes task i.
Completes(i) ==
    /\ ~tasks[i].deleted /\ ~tasks[i].completed /\ tasks'[i].completed
    /\ task_done(i) \/ reminder_done(i)

\* C10: a completion grant conserves experience across the level-ups, adds the
\* points gain without a cap and heals up to 100.  Level 1, xp 80, a focus grant
\* of 50: level 2, xp 30.
C10_GrantConservesXp ==
    [][\A i \in 1..Len(tasks) :
         Completes(i) =>
           LET g == calc_rewards(tasks[i].task_type, user.pepper_mode)
           IN  /\ user'.level >= user.level
               /\ user'.xp < user'.level * 100
               /\ user.xp + g[1] = user'.xp + Thresholds(user.level, user'.level - 1)
               /\ user'.points = user.points + g[2]
               /\ user'.hp = (IF user.hp + g[3] > 100 THEN 100 ELSE user.hp + g[3])
               /\ (user.level = 1 /\ user.xp = 80 /\ g[1] = 50)
                    => (user'.level = 2 /\ user'.xp = 30)]_vars

C10_Witness ==
    /\ user.level = 2 /\ user.xp = 30 /\ user.points = 20
    /\ \E i \in 1..Len(tasks) : tasks[i].completed /\ tasks[i].task_type = "focus"

\* The reward table as the spec states it, pepper column written out.
RewardTable(task_type, pepper) ==
    CASE task_type = "focus"     -> IF pepper THEN <<75, 30, 0>> ELSE <<50, 20, 0>>
      [] task_type = "important" -> IF pepper THEN <<30, 15, 0>> ELSE <<20, 10, 0>>
      [] task_type = "wish"      -> IF pepper THEN <<7, 3, 5>> ELSE <<5, 2, 5>>

\* C12: a completion pays the table value of the task's category (focus 50/20/0,
\* important 20/10/0, wish 5/2/5), xp and points times 1.5 truncated when the
\* user's pepper mode is on at completion time, the heal never multiplied.
C12_RewardTable ==
    [][\A i \in 1..Len(tasks) :
         Completes(i) =>
           LET r == RewardTable(tasks[i].task_type, user.pepper_mode)
           IN  /\ TotalXp(user') = TotalXp(user) + r[1]
               /\ user'.points = user.points + r[2]
               /\ user'.hp = (IF user.hp + r[3] > 100 THEN 100 ELSE user.hp + r[3])]_vars

C12_Witness ==
    /\ user.pepper_mode /\ user.level = 1 /\ user.xp = 57 /\ user.points = 23
    /\ Len(tasks) = 2 /\ tasks[1].completed
    /\ tasks[2].completed /\ tasks[2].task_type = "wish"

\* C13: a settlement of a day with tasks, all of them completed, raises the
\* streak by one, and pepper mode is on afterwards exactly if it was on before
\* or the streak has reached 3; a settlement that counts a day has total > 0.
\* From streak 0 and pepper off, three such days give 1, 2, 3 and pepper on at
\* the third.
C13_StreakProgression ==
    [][Settles
         => /\ out'.total > 0
            /\ out'.done = out'.total
                 => /\ user'.pepper_streak = user.pepper_streak + 1
                    /\ user'.pepper_mode
                         = (user.pepper_mode \/ user.pepper_streak + 1 >= 3)
                    /\ user.pepper_streak = 2 => user'.pepper_mode
                    /\ (user.pepper_streak < 2 /\ ~user.pepper_mode)
                         => ~user'.pepper_mode]_vars

C13_Witness ==
    /\ out.sent /\ out.done = out.total
    /\ out.streak_was = 2 /\ ~out.pepper_was
    /\ user.pepper_streak = 3 /\ user.pepper_mode /\ user.last_perfect_date = Today

C15_NoTasksNoOp ==
    [][DayIds(tasks) = {} /\ process_evening
         => user' = user /\ tasks' = tasks /\ ~out'.sent]_vars

C15_Witness ==
    /\ ran /\ ~out.sent /\ Len(tasks) >= 1
    /\ \A i \in 1..Len(tasks) : ~tasks[i].deleted /\ tasks[i].created_date = "past"
    /\ \E i \in 1..Len(tasks) : ~tasks[i].completed /\ ~tasks[i].penalized

\* C16: after a settlement of a fully completed day the streak is the number of
\* consecutive fully completed calendar days ending that day: one more than
\* before if the day before was such a day, else 1.
C16_StreakCountsConsecutiveDays ==
    [][Settles /\ out'.done = out'.total
         => user'.pepper_streak
              = (IF user.last_perfect_date = Yesterday
                 THEN user.pepper_streak + 1 ELSE 1)]_vars

\* C11: in every state reached by completions, purchases, reward claims and
\* the settlement, interleaved in any way at their awaits, hp is within 0..100
\* and points is not negative.
C11_StatsInRange ==
    /\ 0 <= user.hp /\ user.hp <= 100
    /\ user.points >= 0

\* Overlapping coroutines have finished, their debits add up to more than the
\* user ever had, and the stored points are 0.
C11_Witness ==
    /\ calls = <<>>
    /\ ledger.points < 0
    /\ user.points = 0

\* C17: overlapping operations leave the user row as some one-after-another
\* order of them would.  Completions are the only writers of xp and level, and
\* with pepper mode never on each pays its table value in every order: once no
\* coroutine is in flight and no task was paid twice, the experience of the
\* user row is the initial experience plus one reward per completion.
C17_NoLostUpdate ==
    (/\ calls = <<>>
     /\ ~ledger.settled
     /\ ~user.pepper_mode
     /\ \A i \in 1..MaxTasks : grants[i] <= 1)
        => TotalXp(user) = ledger.xp

\* The step in which a tdone/remdone coroutine writes the reward of task i to
\* the user row.
Pays(i) == grants'[i] = grants[i] + 1

\* C18: over any interleaving of tdone and remdone callbacks for one task id
\* the reward of that task is granted once: a callback that reaches its
\* update_user after the task has been paid leaves the user row as it is.
C18_RewardGrantedOnce ==
    [][\A i \in 1..MaxTasks : grants[i] >= 1 /\ Pays(i) => user' = user]_vars

\* The step in which reward_claim coroutine k writes the debited points.
Debits(k) ==
    /\ debits' # debits
    /\ k \in 1..Len(calls)
    /\ calls[k].op = "rclaim"
    /\ calls[k].pc = "update_user"
    /\ calls'[k].pc = "claim_reward"

\* C19: a claim invocation for a reward that was already claimed when the
\* invocation read it debits nothing: its update_user leaves the user row as
\* it is.
C19_ClaimedIsTerminal ==
    [][\A k \in 1..MaxCalls :
          Debits(k) /\ calls[k].row.claimed => user' = user]_vars

\* C20: a claim checks its funds and debits in one step, so the cost it takes
\* is covered: when its update_user writes the debited value, the user row
\* still holds at least the cost.
C20_ClaimDebitIsCovered ==
    [][\A k \in 1..MaxCalls :
          Debits(k) => user.points >= calls[k].row.cost]_vars

\* Rows and completed rows of the week, and eligibility as the claim states
\* it: Sunday, and done / total strictly above 80 per cent (4 / 5).
WeekTotal == Cardinality({i \in 1..Len(tasks) : ~tasks[i].deleted})

WeekDone ==
    Cardinality({i \in 1..Len(tasks) : ~tasks[i].deleted /\ tasks[i].completed})

ClaimEligible == is_sun /\ WeekTotal > 0 /\ 5 * WeekDone > 4 * WeekTotal

\* C21: the rewards screen offers the claim buttons, and says so, exactly when
\* it is Sunday and the weekly rate is strictly above 80, and the claim
\* handler answers "conditions not met" for an existing reward exactly when
\* that does not hold.
C21_ClaimGate ==
    /\ reply.handler = "show_rewards"
          => /\ reply.claim_buttons <=> ClaimEligible
             /\ reply.text = "can claim" <=> ClaimEligible
    /\ reply.handler = "reward_claim" /\ reply.text # "not found"
          => (reply.text = "conditions not met" <=> ~ClaimEligible)

\* The rewards screen on a Sunday with exactly 80 per cent: no claim button.
C21_Witness ==
    /\ reply.handler = "show_rewards"
    /\ is_sun /\ WeekTotal = 5 /\ WeekDone = 4
    /\ ~reply.claim_buttons /\ reply.text = "rate too low"

\* C23: a claim of an existing reward that is refused leaves the user row and
\* the rewards table as they are, and answers "conditions not met" when the
\* day/rate gate fails, whatever the points, and "not enough points" when the
\* gate passes and points < cost.
C23_RejectedClaim ==
    [][\A rid \in 1..MaxRewards :
          reward_claim(rid) /\ RewardExists(rewards, rid)
            => /\ ~ClaimEligible
                    => /\ reply'.text = "conditions not met"
                       /\ user' = user /\ rewards' = rewards
               /\ ClaimEligible /\ user.points < rewards[rid].cost
                    => /\ reply'.text = "not enough points"
                       /\ user' = user /\ rewards' = rewards]_vars

\* A refused claim with both causes present: the gate is the one reported.
C23_Witness ==
    /\ reply.handler = "reward_claim" /\ reply.text = "conditions not met"
    /\ RewardExists(rewards, 1) /\ user.points < rewards[1].cost
    /\ ~rewards[1].claimed

\* C22: a purchase with points < price (shield 50, potion 100) is refused and
\* leaves the user row as it is; with points >= price it takes exactly the
\* price off the points, sets the item's flag and leaves every other field
\* of the user row as it is.
C22_ShopPurchase ==
    [][\A it \in Items :
          buy(it) =>
            LET price == IF it = "shield" THEN 50 ELSE 100
            IN  IF user.points < price
                THEN user' = user /\ reply'.text = "not enough points"
                ELSE /\ user'.points = user.points - price
                     /\ user'.shield_active = (it = "shield" \/ user.shield_active)
                     /\ user'.pepper_mode = (it = "pepper" \/ user.pepper_mode)
                     /\ user'.hp = user.hp /\ user'.xp = user.xp
                     /\ user'.level = user.level
                     /\ user'.pepper_streak = user.pepper_streak
                     /\ user'.last_perfect_date = user.last_perfect_date]_vars

\* The potion bought with a streak of 0 and an active shield: 50 points and
\* both flags are left.
C22_Witness ==
    /\ reply.handler = "shop_buy" /\ reply.text = "pepper"
    /\ user.points = 150 /\ user.pepper_mode /\ user.shield_active
    /\ user.pepper_streak = 0

\* The jobs held for task id.
JobsOf(js, id) == {k \in 1..Len(js) : js[k].id = id}

\* A task is created with a reminder time.
CreatesWithReminder ==
    /\ Len(tasks') = Len(tasks) + 1
    /\ Len(reminder_time') = Len(tasks')
    /\ reminder_time'[Len(tasks')] # None

\* C24: when a task is created with a valid reminder time, exactly one job
\* with the task's id is registered for that time of today if the time is
\* later than now, and none if it has passed; the scheduler never holds two
\* jobs for one task id.
C24_ReminderScheduled ==
    [][ /\ \A id \in 1..Len(tasks') : Cardinality(JobsOf(jobs', id)) <= 1
        /\ CreatesWithReminder =>
              LET id == Len(tasks')
                  at == run_time(stored_time(reminder_time'[id]))
              IN  IF at > now
                  THEN \E k \in 1..Len(jobs') : jobs'[k] = [id |-> id, at |-> at]
                  ELSE JobsOf(jobs', id) = {} ]_vars

\* C25: a reminder notification is sent only for a task that exists and is
\* incomplete when its job fires, and completing or deleting a task leaves
\* its pending job in the scheduler.
C25_ReminderOnlyIfPending ==
    [][ /\ \A id \in notified' \ notified :
              TaskExists(tasks, id) /\ ~tasks[id].completed
        /\ (\E id \in 1..Len(tasks) :
               /\ Len(tasks') = Len(tasks)
               /\ \/ tasks'[id].completed # tasks[id].completed
                  \/ tasks'[id].deleted # tasks[id].deleted)
             => jobs' = jobs ]_vars

\* A job has fired for a task completed or deleted before, and nothing was
\* sent for it.
C25_Witness ==
    \E id \in fired \ notified :
        ~TaskExists(tasks, id) \/ tasks[id].completed

\* The reminders a restore pass is to register: one for each task of today
\* that has a reminder time, is not completed and whose time is later than now.
PendingReminders ==
    { [id |-> id, at |-> run_time(stored_time(reminder_time[id]))] :
        id \in { i \in 1..Len(tasks) :
                   /\ TaskExists(tasks, i)
                   /\ tasks[i].created_date = Today
                   /\ ~tasks[i].completed
                   /\ reminder_time[i] # None
                   /\ run_time(stored_time(reminder_time[i])) > now } }

JobSet(js) == { js[k] : k \in 1..Len(js) }

\* C26: after the restore pass of a restart the pending jobs are exactly the
\* reminders of today's tasks that have a reminder time, are not completed
\* and lie in the future, one job per task id; a second pass leaves the jobs
\* as they are.
C26_RestoredJobs ==
    [][ /\ restart =>
              /\ JobSet(jobs') = PendingReminders
              /\ Len(jobs') = Cardinality(PendingReminders)
        /\ (restore_reminders /\ JobSet(jobs) = PendingReminders
                               /\ Len(jobs) = Cardinality(PendingReminders)) =>
              /\ JobSet(jobs') = JobSet(jobs)
              /\ Len(jobs') = Len(jobs) ]_vars

\* Two tasks of today with reminder times, one passed and one to come: the
\* scheduler holds one job, for the one to come.
C26_Witness ==
    /\ Len(tasks) = 2
    /\ \E i, j \in 1..2 :
          /\ TaskExists(tasks, i) /\ TaskExists(tasks, j)
          /\ tasks[i].created_date = Today /\ tasks[j].created_date = Today
          /\ reminder_time[i] # None /\ reminder_time[j] # None
          /\ run_time(stored_time(reminder_time[i])) <= now
          /\ run_time(stored_time(reminder_time[j])) > now
          /\ jobs = <<[id |-> j, at |-> run_time(stored_time(reminder_time[j]))]>>

\* A time of day as the reminder step asks for it: one or two digits of an
\* hour up to 23, one separator, two digits of a minute up to 59, with blanks
\* around it ignored.
WellFormedTime(text) ==
    LET t == strip(text)
    IN  \E h \in 0..23, m \in 0..59, sep \in Whitespace \cup {":", "."} :
           LET mm == <<Digits[(m \div 10) + 1], Digits[(m % 10) + 1]>>
           IN  \/ t = <<Digits[(h \div 10) + 1], Digits[(h % 10) + 1], sep>> \o mm
               \/ h < 10 /\ t = <<Digits[h + 1], sep>> \o mm

MalformedTimeTexts == { text \in TimeTexts : ~WellFormedTime(text) }

\* A positive whole number in decimal digits, with blanks around it ignored
\* and a plus sign allowed.
PositiveInteger(text) ==
    LET t  == strip(text)
        ds == IF t # <<>> /\ Head(t) = "+" THEN Tail(t) ELSE t
    IN  /\ ds # <<>>
        /\ AllDigits(ds)
        /\ \E i \in 1..Len(ds) : ds[i] # "0"

NonPositiveCostTexts == { text \in CostTexts : ~PositiveInteger(text) }

\* C30 as stated: a reminder text that is no valid time creates no task and
\* no job, a cost text that is no positive integer creates no reward, and in
\* both cases the form stays at its step with the data collected so far.
C30_InvalidInputKeepsForm ==
    [][ /\ \A text \in MalformedTimeTexts :
              task_add_reminder(text) =>
                  /\ tasks' = tasks /\ reminder_time' = reminder_time
                  /\ jobs' = jobs /\ form' = form
        /\ \A text \in NonPositiveCostTexts :
              reward_add_cost(text) => rewards' = rewards /\ form' = form ]_vars

\* C30, amended: the same for every text other than that of a main-menu
\* button; a main-menu button's text creates nothing either.
C30_InvalidInputKeepsFormUnlessMenu ==
    [][ /\ \A text \in MalformedTimeTexts :
              task_add_reminder(text) =>
                  /\ tasks' = tasks /\ reminder_time' = reminder_time
                  /\ jobs' = jobs
                  /\ text # MenuText => form' = form
        /\ \A text \in NonPositiveCostTexts :
              reward_add_cost(text) =>
                  /\ rewards' = rewards
                  /\ text # MenuText => form' = form ]_vars

\* A malformed time has been refused and the form still waits for the time.
C30_Witness ==
    /\ reply = Reply("task_add_reminder", "bad format", FALSE)
    /\ form = [state |-> "TaskForm.reminder_time", task_type |-> "important"]

\* The user ids a run has taken from the database.
Listed == { run'.listed[k] : k \in 1..Len(run'.listed) }

\* C27: a firing of the evening job walks every user that has a user record
\* and tasks dated today, on the whitelist or not, and the restore pass of a
\* restart walks every user that has tasks dated today.
C27_EveryKnownUserIsWalked ==
    [][ /\ job_start("evening", FALSE) => records \cap tasked \subseteq Listed
        /\ job_start("restore", FALSE) => tasked \subseteq Listed ]_vars

\* C28: when the loop body of the morning or the evening job raises for one
\* user the run still visits every user it listed, and no exception leaves
\* evening_summary_job, morning_alarm_job or _send_reminder.
C28_FailuresAreIsolated ==
    /\ escaped \cap {"morning", "evening", "reminder"} = {}
    /\ run.job \in {"morning", "evening"} =>
          /\ run.visited \cup { run.queue[k] : k \in 1..Len(run.queue) }
                = { run.listed[k] : k \in 1..Len(run.listed) }
          /\ ~run.running => run.queue = <<>>

\* The evening run is over; settlement raised for one user and was done for
\* a user after that one.
C28_Witness ==
    /\ run.job = "evening"
    /\ ~run.running
    /\ \E u \in run.raised : \E v \in served : v > u

\* C29: a write that raises leaves no part of its operation behind: once the
\* settlement has ended, the user's penalties are not stored while a task of
\* today it failed is still unpenalized, and once a completion has ended, the
\* task is not completed without its reward having been written.
C29_NoPartialState ==
    /\ (ledger.settled /\ \A k \in 1..Len(calls) : calls[k].op # "evening") =>
          \A i \in 1..Len(tasks) :
              (TaskExists(tasks, i) /\ tasks[i].created_date = Today
                                    /\ ~tasks[i].completed) => tasks[i].penalized
    /\ \A i \in 1..Len(tasks) :
          (tasks[i].completed /\ grants[i] = 0) =>
              \E k \in 1..Len(calls) : calls[k].op = "done" /\ calls[k].arg = i

\* C31: completing or deleting a task whose row is gone, claiming a reward
\* whose row is gone and a reminder firing for a task whose row is gone leave
\* the user, the tasks and the rewards as they are; the callbacks answer
\* with their refusal and no reminder is sent.
C31_MissingIdIsNoOp ==
    [][ /\ \A i \in 1..MaxTasks + 1 : ~TaskExists(tasks, i) =>
              /\ \A h \in {"task_done", "reminder_done"} :
                    tdone(h, i) =>
                        /\ user' = user /\ tasks' = tasks /\ rewards' = rewards
                        /\ reply'.text = "done already or not found"
              /\ tdel(i) => user' = user /\ tasks' = tasks /\ rewards' = rewards
        /\ \A rid \in 1..MaxRewards + 1 : ~RewardExists(rewards, rid) =>
              (reward_claim(rid) =>
                  /\ user' = user /\ tasks' = tasks /\ rewards' = rewards
                  /\ reply'.text = "not found")
        /\ \A k \in 1..Len(jobs) : ~TaskExists(tasks, jobs[k].id) =>
              (send_reminder(k) =>
                  /\ user' = user /\ tasks' = tasks /\ rewards' = rewards
                  /\ notified' = notified) ]_vars

\* The completion of a task has just been refused and every row of the
\* tasks table is gone.
C31_Witness ==
    /\ reply = Reply("task_done", "done already or not found", FALSE)
    /\ Len(tasks) >= 1
    /\ \A i \in 1..Len(tasks) : tasks[i].deleted

\* The rows of the trailing seven days: today and the six days before it.
WeekRows == {i \in 1..Len(tasks) :
                /\ TaskExists(tasks, i)
                /\ tasks[i].created_date >= AsOf - 6
                /\ tasks[i].created_date <= AsOf}

\* C32: the weekly completion rate is 100 * completed / all over the tasks
\* created today or on the six days before, and 0 when there are none; a
\* task created seven days ago does not count.
C32_WeeklyRate ==
    rate.asked =>
        LET all  == Cardinality(WeekRows)
            comp == Cardinality({i \in WeekRows : tasks[i].completed})
        IN  IF all = 0
            THEN rate.total = 0 \/ rate.done = 0
            ELSE rate.total > 0 /\ rate.done * all = comp * rate.total

\* C33: a run of the morning job sends the nudge to the users of its list
\* that have no task of today when it comes to them, to no user that has
\* one, and changes no user or task row.
C33_NudgeOnlyEmptyLists ==
    [][ (run.job = "morning" /\ run.running /\ run'.visited # run.visited) =>
            LET uid == Head(run.queue)
            IN  /\ uid \in served' <=> (uid \notin tasked /\ uid \notin run'.raised)
                /\ served' \ {uid} = served \ {uid}
                /\ user' = user /\ tasks' = tasks
                /\ tasked' = tasked /\ records' = records ]_vars

\* A morning run is over: one user was nudged, another one, with a task of
\* today, was visited and not nudged.
C33_Witness ==
    /\ run.job = "morning"
    /\ ~run.running
    /\ run.raised = {}
    /\ \E u \in served : u \notin tasked
    /\ \E v \in run.visited \ served : v \in tasked

\* 07:00, 07:30, ..., 11:30, 12:00 in minutes of the day
NudgeTimes == { 420 + 30 * k : k \in 0..10 }

\* C34: the morning job is started at 07:00, 07:30, ..., 11:30 and 12:00 and
\* at no other time of the day.
C34_NudgeTimes ==
    [][ now' # now => (run'.job = "morning" <=> now' \in NudgeTimes) ]_vars

\* The states in which a form waits for a text.
TextInputStates ==
    { "TaskForm.name", "TaskForm.reminder_time", "RewardForm.name",
      "RewardForm.cost", "AddUserForm.user_id", "CategoryForm.name",
      "IdeaForm.title" }

\* The form is closed and no table has a row more or less.
Cancelled ==
    /\ form' = NoForm
    /\ UNCHANGED <<tasks, reminder_time, rewards, whitelist, records, ideas, jobs>>

\* C35: in every state in which a form waits for a text, each of the six
\* main-menu buttons, the command /cancel and the cancel button close the form
\* and store nothing.
C35_CancellationIsUniversal ==
    [][ form.state \in TextInputStates =>
          /\ \A text \in MENU_BUTTONS \cup {<<"/cancel">>} :
                on_message(text) => Cancelled
          /\ cancel_fsm_cb => Cancelled ]_vars

\* C36: a row is added to the tasks table only by the step that ends the task
\* form, the skip button or a valid time at the reminder step, which adds
\* exactly one row and closes the form; the reminder step is entered from the
\* type step only and the type step from the name step only, so a form that
\* is cancelled or still waiting has added nothing.
C36_TaskStoredAtLastStep ==
    [][ /\ Len(tasks') # Len(tasks) =>
              /\ form.state = "TaskForm.reminder_time"
              /\ reply'.handler \in {"task_skip_reminder", "task_add_reminder"}
              /\ Len(tasks') = Len(tasks) + 1
              /\ form' = NoForm
        /\ form.state = "TaskForm.reminder_time" /\ on_message(<<"9", ":", "0", "5">>)
              => Len(tasks') = Len(tasks) + 1
        /\ form'.state = "TaskForm.reminder_time" /\ form.state # "TaskForm.reminder_time"
              => form.state = "TaskForm.task_type"
        /\ form'.state = "TaskForm.task_type" /\ form.state # "TaskForm.task_type"
              => form.state = "TaskForm.name" ]_vars

\* A task form went through its steps and was ended by the skip button.
C36_Witness ==
    /\ reply.handler = "task_skip_reminder"
    /\ form = NoForm
    /\ Len(tasks) = MaxTasks

\* C37: a reminder job that runs belongs to a task whose reminder has not run
\* before, so that no task is sent a second reminder message, whatever tasks
\* are added, completed or deleted and however often the process is started
\* again.
C37_AtMostOneReminder ==
    [][ \A k \in 1..Len(jobs) :
          send_reminder(k) => jobs[k].id \notin fired \cup notified ]_vars

\* A task still to do has had its reminder message, its time is past, and
\* no job is pending.
C37_Witness ==
    /\ jobs = <<>>
    /\ \E id \in notified :
          /\ TaskExists(tasks, id) /\ ~tasks[id].completed
          /\ now > run_time(stored_time(reminder_time[id]))

\* C38: whenever the streak of perfect days is 3 or more, pepper mode is on,
\* in every state reached by completions, purchases, settlements and days
\* passing one after the other.
C38_StreakImpliesPepper == user.pepper_streak >= 3 => user.pepper_mode

\* A third perfect day in a row has been settled, and the shop was used on the
\* way.
C38_Witness ==
    /\ user.pepper_streak >= 3
    /\ bought > 0
    /\ out.sent

\* All tasks of today are completed, and there is one.
PerfectDay ==
    LET day == get_tasks_by_date(tasks, Today)
    IN  day # <<>> /\ count_done(tasks, day) = Len(day)

\* The four fields of the user row that the settlement and the shop own.
SettlementFields(u) ==
    <<u.shield_active, u.pepper_mode, u.pepper_streak, u.last_perfect_date>>

\* C39: the evening job leaves xp and level as they are; a completion by
\* either button leaves the shield, pepper mode, the streak and the last
\* perfect date as they are; a claim changes no field of the user row but
\* points; and the evening job of a perfect day whose new streak is below 3
\* leaves pepper mode as it was.
C39_FrameEffects ==
    [][ /\ evening_summary_job =>
              /\ user'.xp = user.xp /\ user'.level = user.level
              /\ PerfectDay /\ user.pepper_streak + 1 < 3
                    => user'.pepper_mode = user.pepper_mode
        /\ \A i \in 1..MaxWeekTasks :
              task_done(i) \/ reminder_done(i)
                 => SettlementFields(user') = SettlementFields(user)
        /\ \A rid \in 1..MaxRewards :
              reward_claim(rid) => [user' EXCEPT !.points = user.points] = user
      ]_vars

\* A potion was bought, a reward claimed, and a first perfect day settled with
\* pepper mode still on.
C39_Witness ==
    /\ out.sent /\ out.done = out.total
    /\ user.pepper_streak = 1 /\ user.pepper_mode
    /\ user.level > 1
    /\ \E rid \in 1..Len(rewards) : debits[rid] > 0

====
